---- MODULE Spec2Model ----
(***************************************************************************)
(* Room orchestrator of spin-be: the room registry (RoomsRepository),      *)
(* the room service (RoomsService), the socket gateway (RoomsGateway) with *)
(* its reconnection grace timers, and the per-room media router map of     *)
(* MediasoupService.                                                       *)
(*                                                                         *)
(* Each gateway handler is one action.  The synchronous handlers run to    *)
(* completion on the Node event loop, so they are atomic; createRouter     *)
(* awaits the worker and is two steps.                                     *)
(***************************************************************************)
EXTENDS Integers, Sequences, FiniteSets, TLC

\* ---------------------------------------------------------------- bounds
NumUsers == 2
MaxConns == 3
NumNames == 2
MaxRouterCalls == 2
MaxEngineIds == 2
MaxRequests == 4
NumUsersWide == 3
MaxConnsWide == 4

Users == 1..NumUsers
Names == {<<"name", n>> : n \in 1..NumNames}

\* Connection ids are opaque and never reused; at most MaxConns connections
\* are opened in a behaviour.  The k-th connection opened by the client of
\* user u has the id <<u, k>>: the client behind a connection speaks for one
\* identity, the userId of its create-room, join-room and leave-room events.
Sockets == Users \X (1..MaxConns)

Owner(c) == c[1]

\* JavaScript undefined / null for each kind of identifier
NoUser == 0
NoSocket == <<>>
NoRoom == <<>>

\* Room.theme is optional: undefined until update-theme sets it
NoTheme == "undefined"

Themes == {"christmas"}

\* createTransport {direction}
Directions == {"send", "recv"}

VARIABLES
    rooms,               \* RoomsRepository.rooms: roomId -> [hostId, members, theme]
    userSocketMap,       \* RoomsRepository.userSocketMap: userId -> connection id
    userRoomMap,         \* RoomsRepository.userRoomMap: userId -> roomId
    loggedInUsers,       \* RoomsRepository.loggedInUsers: userId -> presence
    pendingDisconnects,  \* RoomsGateway.pendingDisconnects: userId -> roomId captured by the timer
    status,              \* transport state of every connection id
    routers,             \* MediasoupService.routers: roomId -> bundle
    routerCalls,         \* createRouter calls suspended at their await
    engineIds,           \* number of producer and consumer ids the media engine has assigned
    requests,            \* number of client requests handled so far, at most MaxRequests
    last,                \* the event handled last
    emitted,             \* what the last handler emitted and invoked, in order
    started,             \* lifecycle of the process: "no", "running", "failed", "exited"
    workers,             \* MediasoupService.workers: the pool, a list of worker pids
    nextWorkerIndex,     \* MediasoupService.nextWorkerIndex (0-based, NaN after % 0)
    minWorkers,          \* MediasoupService.minWorkers
    maxWorkers,          \* MediasoupService.maxWorkers
    isScaling,           \* MediasoupService.isScaling
    workerResourceUsage, \* MediasoupService.workerResourceUsage: pid -> cpu usage in percent
    passes,              \* checkAndScale calls suspended at an await
    creating,            \* createRouter calls suspended at worker.createRouter
    recoveries,          \* recoverWorker calls suspended at createSingleWorker
    pidCount,            \* number of workers the engine has created
    deaths,              \* number of 'died' events handled
    attempts,            \* number of recoverWorker calls made
    exitTimers,          \* number of pending setTimeout(process.exit) timers
    messages,            \* JsonStorageService.data.messages, in insertion order
    now,                 \* the server clock in ms, as Date.now() read it last
    uuids,               \* number of ids uuidv4() has minted
    delivered,           \* what the last handler's asynchronous calls emitted after it
    socketRooms          \* socket.io adapter: connection id -> the rooms it has joined

poolVars == <<started, workers, nextWorkerIndex, minWorkers, maxWorkers, isScaling,
              workerResourceUsage, passes, creating, recoveries, pidCount,
              deaths, attempts, exitTimers>>

chatVars == <<messages, now, uuids>>

vars == <<rooms, userSocketMap, userRoomMap, loggedInUsers, pendingDisconnects,
          status, routers, routerCalls, engineIds, requests, last, emitted,
          poolVars, chatVars, delivered, socketRooms>>

\* ------------------------------------------------------- generic helpers
Put(f, k, v) == [x \in (DOMAIN f) \cup {k} |-> IF x = k THEN v ELSE f[x]]

Del(f, k) == [x \in (DOMAIN f) \ {k} |-> f[x]]

Min(a, b) == IF a < b THEN a ELSE b

Includes(s, x) == \E i \in 1..Len(s) : s[i] = x

IndexOf(s, x) == IF Includes(s, x)
                 THEN CHOOSE i \in 1..Len(s) : s[i] = x /\ \A j \in 1..(i-1) : s[j] # x
                 ELSE 0

Splice(s, i) == [j \in 1..(Len(s)-1) |-> IF j < i THEN s[j] ELSE s[j+1]]

NoDuplicates(s) == \A i, j \in 1..Len(s) : s[i] = s[j] => i = j

\* ------------------------------------------------------------- room ids
\* sha256("room-" + hostId) cut to 12 hex digits: a fixed function of hostId,
\* distinct for distinct hosts
GenerateRoomId(hostId) == <<"room", hostId>>

RoomIds == {GenerateRoomId(u) : u \in Users}

\* ------------------------------------------------------ RoomsRepository
\* userSocketMap is a Map that findUserIdBySocketId scans in insertion order
\* for the first user bound to the socket.  At most one user is ever bound to
\* a connection (OneUserPerSocket), so the order is not kept.
SetUserSocket(m, userId, socketId) == Put(m, userId, socketId)

GetUserSocket(m, userId) == IF userId \in DOMAIN m THEN m[userId] ELSE NoSocket

\* a deleteUserSocket that leaves the binding
DeleteUserSocketKeepsBinding(m, userId) == m

DeleteUserSocket(m, userId) == Del(m, userId)

FindUserIdBySocketId(m, socketId) ==
    IF \E u \in DOMAIN m : m[u] = socketId
    THEN CHOOSE u \in DOMAIN m : m[u] = socketId
    ELSE NoUser

GetUserRoom(m, userId) == IF userId \in DOMAIN m THEN m[userId] ELSE NoRoom

AddMemberToRoom(rs, roomId, memberId) ==
    IF roomId \notin DOMAIN rs THEN rs
    ELSE IF Includes(rs[roomId].members, memberId) THEN rs
    ELSE [rs EXCEPT ![roomId].members = Append(@, memberId)]

\* the new registry and whether the member was removed
RemoveMemberFromRoom(rs, roomId, memberId) ==
    IF roomId \notin DOMAIN rs THEN [rooms |-> rs, removed |-> FALSE]
    ELSE LET index == IndexOf(rs[roomId].members, memberId)
         IN IF index > 0
            THEN [rooms |-> [rs EXCEPT ![roomId].members = Splice(@, index)],
                  removed |-> TRUE]
            ELSE [rooms |-> rs, removed |-> FALSE]

\* an addLoggedInUser that keeps the record a user already has
AddLoggedInUserKeepFirst(l, genID, name, roomId, socketId) ==
    IF genID \in DOMAIN l THEN l
    ELSE Put(l, genID, [name |-> name, roomId |-> roomId, socketId |-> socketId])

AddLoggedInUser(l, genID, name, roomId, socketId) ==
    Put(l, genID, [name |-> name, roomId |-> roomId, socketId |-> socketId])

IsUserLoggedInToRoom(l, genID, roomId) ==
    genID \in DOMAIN l /\ l[genID].roomId = roomId

RemoveLoggedInUser(l, genID) == Del(l, genID)

\* --------------------------------------------------------- RoomsService
\* a createRoom that pushes the host without looking for it in members
CreateRoomPushAlways(rs, hostId) ==
    LET roomId == GenerateRoomId(hostId)
    IN IF roomId \in DOMAIN rs
       THEN [rs EXCEPT ![roomId].members = Append(@, hostId)]
       ELSE Put(rs, roomId, [hostId |-> hostId, members |-> <<hostId>>, theme |-> NoTheme])

CreateRoom(rs, hostId) ==
    LET roomId == GenerateRoomId(hostId)
    IN IF roomId \in DOMAIN rs
       THEN IF Includes(rs[roomId].members, hostId) THEN rs
            ELSE [rs EXCEPT ![roomId].members = Append(@, hostId)]
       ELSE Put(rs, roomId, [hostId |-> hostId, members |-> <<hostId>>, theme |-> NoTheme])

JoinRoom(rs, roomId, memberId) == AddMemberToRoom(rs, roomId, memberId)

NullResult == [ok |-> FALSE, memberId |-> NoUser, members |-> <<>>, roomDeleted |-> FALSE]

\* a leaveRoom that deletes the room when it is empty instead of when the
\* host leaves
LeaveRoomDeleteWhenEmpty(rs, roomId, memberId) ==
    IF roomId \notin DOMAIN rs THEN [rooms |-> rs, result |-> NullResult]
    ELSE LET rem == RemoveMemberFromRoom(rs, roomId, memberId)
             isEmpty == Len(rem.rooms[roomId].members) = 0
         IN IF ~rem.removed THEN [rooms |-> rs, result |-> NullResult]
            ELSE [rooms |-> IF isEmpty THEN Del(rem.rooms, roomId) ELSE rem.rooms,
                  result |-> [ok |-> TRUE, memberId |-> memberId,
                              members |-> rem.rooms[roomId].members,
                              roomDeleted |-> isEmpty]]

\* the new registry and the MemberLeftResult (ok = FALSE for null)
LeaveRoom(rs, roomId, memberId) ==
    IF roomId \notin DOMAIN rs THEN [rooms |-> rs, result |-> NullResult]
    ELSE LET rem == RemoveMemberFromRoom(rs, roomId, memberId)
             isHost == memberId = rs[roomId].hostId
         IN IF ~rem.removed THEN [rooms |-> rs, result |-> NullResult]
            ELSE [rooms |-> IF isHost THEN Del(rem.rooms, roomId) ELSE rem.rooms,
                  result |-> [ok |-> TRUE, memberId |-> memberId,
                              members |-> rem.rooms[roomId].members,
                              roomDeleted |-> isHost]]

DefaultName(memberId) == <<"User", memberId>>

GetRoomMembersWithDetails(rs, l, roomId) ==
    IF roomId \notin DOMAIN rs THEN <<>>
    ELSE [i \in 1..Len(rs[roomId].members) |->
            LET memberId == rs[roomId].members[i]
            IN [genID |-> memberId,
                name |-> IF memberId \in DOMAIN l THEN l[memberId].name
                         ELSE DefaultName(memberId),
                isHost |-> memberId = rs[roomId].hostId]]

\* the state after handleUserDisconnect and its MemberLeftResult
HandleUserDisconnect(rs, usm, urm, userId) ==
    LET roomId == GetUserRoom(urm, userId)
    IN IF roomId = NoRoom
       THEN [rooms |-> rs, usm |-> usm, urm |-> urm, result |-> NullResult]
       ELSE LET lv == LeaveRoom(rs, roomId, userId)
            IN [rooms |-> lv.rooms,
                usm |-> DeleteUserSocket(usm, userId),
                urm |-> Del(urm, userId),
                result |-> lv.result]

\* ----------------------------------------------------- MediasoupService
\* the bundle createRouter records: the router and three empty maps.
\* producers is kept in insertion order, each with the transport it was
\* created on; a consumer has its transport and the producer it consumes.
NewBundle(router) ==
    [router |-> router, transports |-> {}, producers |-> <<>>, consumers |-> {}]

\* room.theme || 'none'
ThemeOrNone(theme) == IF theme = NoTheme THEN "none" ELSE theme

\* transport ids are "<connectionId>-<direction>": <<connectionId, direction>>
StartsWith(transportId, socketId) == transportId[1] = socketId

\* a value-or-null result: null is the empty sequence, a value v is <<v>>
Null == <<>>

Some(v) == <<v>>

\* what a facade operation leaves behind: the router map, the value it
\* returns and whether the media engine's rejection propagated out of it
Out(rt, result, raised) == [routers |-> rt, result |-> result, raised |-> raised]

HasProducer(rt, roomId, producerId) ==
    \E i \in 1..Len(rt[roomId].producers) : rt[roomId].producers[i].id = producerId

HasConsumer(rt, roomId, consumerId) ==
    \E k \in rt[roomId].consumers : k.id = consumerId

GetRouterRtpCapabilities(rt, roomId) ==
    IF roomId \notin DOMAIN rt THEN Null ELSE Some(rt[roomId].router)

CreateWebRtcTransport(rt, roomId, transportId, rejects) ==
    IF roomId \notin DOMAIN rt THEN Out(rt, Null, FALSE)
    ELSE IF rejects THEN Out(rt, Null, TRUE)
    ELSE Out([rt EXCEPT ![roomId].transports = @ \cup {transportId}],
             Some(transportId), FALSE)

ConnectTransport(rt, roomId, transportId, rejects) ==
    IF roomId \notin DOMAIN rt THEN Out(rt, FALSE, FALSE)
    ELSE IF transportId \notin rt[roomId].transports THEN Out(rt, FALSE, FALSE)
    ELSE IF rejects THEN Out(rt, FALSE, TRUE)
    ELSE Out(rt, TRUE, FALSE)

\* producerId is the id the engine gives the new producer
Produce(rt, roomId, transportId, producerId, rejects) ==
    IF roomId \notin DOMAIN rt THEN Out(rt, Null, FALSE)
    ELSE IF transportId \notin rt[roomId].transports THEN Out(rt, Null, FALSE)
    ELSE IF rejects THEN Out(rt, Null, TRUE)
    ELSE Out([rt EXCEPT ![roomId].producers =
                  Append(@, [id |-> producerId, transport |-> transportId])],
             Some(producerId), FALSE)

\* a consume that does not look the producer up
ConsumeWithoutProducerLookup(rt, roomId, transportId, producerId, canConsume, consumerId, rejects) ==
    IF roomId \notin DOMAIN rt THEN Out(rt, Null, FALSE)
    ELSE IF transportId \notin rt[roomId].transports THEN Out(rt, Null, FALSE)
    ELSE IF ~canConsume THEN Out(rt, Null, FALSE)
    ELSE IF rejects THEN Out(rt, Null, TRUE)
    ELSE Out([rt EXCEPT ![roomId].consumers =
                  @ \cup {[id |-> consumerId, transport |-> transportId,
                           producer |-> producerId]}],
             Some([id |-> consumerId, producerId |-> producerId]), FALSE)

\* canConsume is the router's answer, consumerId the id the engine gives
Consume(rt, roomId, transportId, producerId, canConsume, consumerId, rejects) ==
    IF roomId \notin DOMAIN rt THEN Out(rt, Null, FALSE)
    ELSE IF transportId \notin rt[roomId].transports THEN Out(rt, Null, FALSE)
    ELSE IF ~HasProducer(rt, roomId, producerId) THEN Out(rt, Null, FALSE)
    ELSE IF ~canConsume THEN Out(rt, Null, FALSE)
    ELSE IF rejects THEN Out(rt, Null, TRUE)
    ELSE Out([rt EXCEPT ![roomId].consumers =
                  @ \cup {[id |-> consumerId, transport |-> transportId,
                           producer |-> producerId]}],
             Some([id |-> consumerId, producerId |-> producerId]), FALSE)

ResumeConsumer(rt, roomId, consumerId, rejects) ==
    IF roomId \notin DOMAIN rt THEN Out(rt, FALSE, FALSE)
    ELSE IF ~HasConsumer(rt, roomId, consumerId) THEN Out(rt, FALSE, FALSE)
    ELSE IF rejects THEN Out(rt, FALSE, TRUE)
    ELSE Out(rt, TRUE, FALSE)

GetProducers(rt, roomId) ==
    IF roomId \notin DOMAIN rt THEN <<>>
    ELSE [i \in 1..Len(rt[roomId].producers) |-> rt[roomId].producers[i].id]

CloseProducer(rt, roomId, producerId) ==
    IF roomId \notin DOMAIN rt THEN rt
    ELSE IF HasProducer(rt, roomId, producerId)
    THEN [rt EXCEPT ![roomId].producers = SelectSeq(@, LAMBDA p : p.id # producerId)]
    ELSE rt

CloseTransport(rt, roomId, transportId) ==
    IF roomId \notin DOMAIN rt THEN rt
    ELSE IF transportId \in rt[roomId].transports
    THEN [rt EXCEPT ![roomId].transports = @ \ {transportId}]
    ELSE rt

\* a cleanup that closes the transports and leaves the producers alone
CleanupUserMediaTransportsOnly(rt, roomId, oldSocketId) ==
    IF roomId \notin DOMAIN rt THEN [routers |-> rt, closed |-> <<>>]
    ELSE [routers |-> [rt EXCEPT ![roomId].transports =
                           {t \in @ : ~StartsWith(t, oldSocketId)}],
          closed |-> <<>>]

\* the new router map and the ids of the producers it closed, in map order
CleanupUserMedia(rt, roomId, oldSocketId) ==
    IF roomId \notin DOMAIN rt THEN [routers |-> rt, closed |-> <<>>]
    ELSE LET transportsToDelete ==
                 {t \in rt[roomId].transports : StartsWith(t, oldSocketId)}
         IN IF transportsToDelete # {}
            THEN [routers |-> [rt EXCEPT ![roomId].transports = @ \ transportsToDelete,
                                         ![roomId].producers = <<>>],
                  closed |-> [i \in 1..Len(rt[roomId].producers) |->
                                rt[roomId].producers[i].id]]
            ELSE [routers |-> rt, closed |-> <<>>]

CloseRoom(rt, roomId) == IF roomId \in DOMAIN rt THEN Del(rt, roomId) ELSE rt

\* ------------------------------------------------ JsonStorageService
HistoryLimit == 50

\* messages.filter(pred), for the two filters of the service
InRoom(msgs, roomId) == SelectSeq(msgs, LAMBDA m : m.roomId = roomId)

\* Array.prototype.sort((a, b) => a.timestamp - b.timestamp): stable, so a
\* list that is in order stays as it is, and otherwise an element's place is
\* the number of elements with a smaller timestamp, and of earlier elements
\* with the same timestamp, before it
SortByTimestamp(msgs) ==
    LET n == Len(msgs)
        Before(j, k) == \/ msgs[j].timestamp < msgs[k].timestamp
                        \/ (msgs[j].timestamp = msgs[k].timestamp /\ j < k)
    IN IF \A k \in 1..(n - 1) : msgs[k].timestamp <= msgs[k + 1].timestamp
       THEN msgs
       ELSE [i \in 1..n |->
                msgs[CHOOSE k \in 1..n :
                         Cardinality({j \in 1..n : Before(j, k)}) = i - 1]]

\* slice(0, limit)
Slice(s, limit) == SubSeq(s, 1, Min(Len(s), limit))

\* getMessages(roomId) with the default limit
GetMessages(msgs, roomId) == Slice(SortByTimestamp(InRoom(msgs, roomId)), HistoryLimit)


\* addReaction up to saveData: the message of the room with that id (none:
\* 'Message not found' is thrown), its reaction entry for the emoji, and the
\* toggle of userId in it.  A message without a reactions field has the
\* empty list.
AddReaction(msgs, roomId, messageId, userId, emoji) ==
    LET found == {k \in 1..Len(msgs) : msgs[k].id = messageId /\ msgs[k].roomId = roomId}
    IN IF found = {} THEN [found |-> FALSE, messages |-> msgs, reactions |-> <<>>]
       ELSE LET k == CHOOSE i \in found : \A j \in found : i <= j
                rs == msgs[k].reactions
                at == {i \in 1..Len(rs) : rs[i].emoji = emoji}
                e == IF at = {} THEN 0 ELSE CHOOSE i \in at : \A j \in at : i <= j
                after ==
                    IF e = 0 THEN Append(rs, [emoji |-> emoji, userIds |-> <<userId>>])
                    ELSE IF Includes(rs[e].userIds, userId)
                    THEN LET userIds == SelectSeq(rs[e].userIds, LAMBDA id : id # userId)
                         IN IF Len(userIds) = 0
                            THEN SelectSeq(rs, LAMBDA r : r.emoji # emoji)
                            ELSE [rs EXCEPT ![e].userIds = userIds]
                    ELSE [rs EXCEPT ![e].userIds = Append(@, userId)]
            IN [found |-> TRUE,
                messages |-> [msgs EXCEPT ![k].reactions = after],
                reactions |-> after]

\* ------------------------------------------------------------ socket.io
\* server.sockets.sockets holds a socket until its close completes
IsConnected(socketId) == status[socketId] \in {"live", "closing"}

\* client.join(roomId) and client.leave(roomId) on the adapter's rooms
SocketJoin(sr, socketId, roomId) == [sr EXCEPT ![socketId] = @ \cup {roomId}]

SocketLeave(sr, socketId, roomId) == [sr EXCEPT ![socketId] = @ \ {roomId}]

\* a socket that is disconnecting leaves every room it had joined
LeaveAll(sr, st) == [s \in DOMAIN sr |-> IF st[s] = "live" THEN sr[s] ELSE {}]

\* An emit is recorded by its addressing: `to` is a room's broadcast scope
\* (server.to(roomId)) or one connection (client.emit, server.to(socketId)),
\* `except` the sender that client.to(roomId) leaves out.
Ev(type, to, except, data) ==
    [type |-> type, to |-> to, except |-> except, data |-> data]

Handled(op, c, userId, roomId, flag) ==
    [op |-> op, conn |-> c, user |-> userId, room |-> roomId, flag |-> flag]

\* a handled join-room, with the name the request carried
HandledJoin(c, memberId, roomId, name, flag) ==
    [op |-> "join-room", conn |-> c, user |-> memberId, room |-> roomId,
     flag |-> flag, name |-> name]

\* a handled SFU request: flag is the success of the facade call, raised
\* whether the engine's rejection left the handler
HandledEngine(op, c, roomId, flag, raised) ==
    [op |-> op, conn |-> c, user |-> NoUser, room |-> roomId, flag |-> flag,
     raised |-> raised]

\* a handled react-to-message, with the message and emoji the request carried
HandledReact(c, userId, roomId, messageId, emoji, flag) ==
    [op |-> "react-to-message", conn |-> c, user |-> userId, room |-> roomId,
     flag |-> flag, messageId |-> messageId, emoji |-> emoji]

\* handleGetChatHistory: the room's stored messages, emitted to the client
HandleGetChatHistory(c, roomId) ==
    Ev("chat-history", c, NoSocket, [messages |-> GetMessages(messages, roomId)])

\* create-room and join-room call handleGetChatHistory where they have
\* answered room-created or room-joined
ChatHistoryAfter(ev, c, roomId) ==
    IF \E i \in 1..Len(ev) : ev[i].type \in {"room-created", "room-joined"} /\ ev[i].to = c
    THEN <<HandleGetChatHistory(c, roomId)>>
    ELSE <<>>

\* ----------------------------------------------------------------- Init
\* the message store with no data file
InitStorage ==
    /\ messages = <<>>
    /\ now = 0
    /\ uuids = 0
    /\ delivered = <<>>

\* the fields of MediasoupService after construction
NaN == -1

InitPool ==
    /\ started = "no"
    /\ workers = <<>>
    /\ nextWorkerIndex = 0
    /\ minWorkers = 2
    /\ maxWorkers = 0
    /\ isScaling = FALSE
    /\ workerResourceUsage = <<>>
    /\ passes = <<>>
    /\ creating = <<>>
    /\ recoveries = 0
    /\ pidCount = 0
    /\ deaths = 0
    /\ attempts = 0
    /\ exitTimers = 0

Init ==
    /\ rooms = <<>>
    /\ userSocketMap = <<>>
    /\ userRoomMap = <<>>
    /\ loggedInUsers = <<>>
    /\ pendingDisconnects = <<>>
    /\ status = [s \in Sockets |-> "new"]
    /\ routers = <<>>
    /\ routerCalls = {}
    /\ engineIds = 0
    /\ requests = 0
    /\ last = Handled("init", NoSocket, NoUser, NoRoom, FALSE)
    /\ emitted = <<>>
    /\ socketRooms = [s \in Sockets |-> {}]
    /\ InitPool
    /\ InitStorage

\* --------------------------------------------------------- RoomsGateway
\* connection c delivers one more request
Receive(c) ==
    /\ status[c] = "live"
    /\ requests < MaxRequests
    /\ requests' = requests + 1

\* a new transport connection; users are numbered in the order in which their
\* clients first connect
Connect(c, cap) ==
    /\ status[c] = "new"
    /\ \A s \in DOMAIN status : (s[1] = c[1] /\ s[2] < c[2]) => status[s] # "new"
    /\ \A s \in DOMAIN status : s[1] < c[1] => status[<<s[1], 1>>] # "new"
    /\ Cardinality({s \in DOMAIN status : status[s] # "new"}) < cap
    /\ status' = [status EXCEPT ![c] = "live"]
    /\ last' = Handled("connection", c, NoUser, NoRoom, FALSE)
    /\ emitted' = <<>>
    /\ UNCHANGED <<rooms, userSocketMap, userRoomMap, loggedInUsers,
                   pendingDisconnects, routers, routerCalls, engineIds, requests>>
    /\ UNCHANGED <<poolVars, chatVars, socketRooms>>
    /\ delivered' = <<>>

HandleConnection(c) == Connect(c, MaxConns)

\* the body of handleDisconnect: the user bound to the socket, if any, gets a
\* fresh grace timer that remembers the user's room
ArmGraceTimer(pd, usm, urm, c) ==
    LET userId == FindUserIdBySocketId(usm, c)
    IN IF userId = NoUser THEN pd
       ELSE Put(pd, userId, GetUserRoom(urm, userId))

\* the connection drops, or its forced close completes
HandleDisconnect(c) ==
    /\ status[c] \in {"live", "closing"}
    /\ status' = [status EXCEPT ![c] = "closed"]
    /\ pendingDisconnects' = ArmGraceTimer(pendingDisconnects, userSocketMap, userRoomMap, c)
    /\ last' = Handled("disconnect", c, FindUserIdBySocketId(userSocketMap, c),
                       NoRoom, status[c] = "closing")
    /\ emitted' = <<>>
    /\ socketRooms' = LeaveAll(socketRooms, status')
    /\ UNCHANGED <<rooms, userSocketMap, userRoomMap, loggedInUsers, routers,
                   routerCalls, engineIds, requests>>
    /\ UNCHANGED <<poolVars, chatVars>>
    /\ delivered' = <<>>

\* socket.disconnect(true) on a connected socket.  The close completes at once
\* (sync: handleDisconnect runs inside the call, on the maps as they are then)
\* or later (the socket is closing and HandleDisconnect follows).
ForceClose(st, pd, usm, urm, socketId, sync) ==
    IF ~IsConnected(socketId) THEN [status |-> st, pd |-> pd]
    ELSE IF sync
    THEN [status |-> [st EXCEPT ![socketId] = "closed"],
          pd |-> ArmGraceTimer(pd, usm, urm, socketId)]
    ELSE [status |-> [st EXCEPT ![socketId] = "closing"], pd |-> pd]

\* a cancelPendingDisconnect that leaves the timer armed
CancelPendingDisconnectKeepsTimer(pd, userId) == pd

CancelPendingDisconnect(pd, userId) == Del(pd, userId)

\* the old connection is closed before the user is rebound
RebindAfterClose(usm, userId, c) == usm

\* "Update socket mapping BEFORE disconnecting old socket"
RebindBeforeClose(usm, userId, c) == SetUserSocket(usm, userId, c)

\* a liveness check that only looks for a bound connection id
CurrentSocketBound(userId) == GetUserSocket(userSocketMap, userId) # NoSocket

\* the timer's safety check: is the user's current connection still connected
CurrentSocketConnected(userId) ==
    LET currentSocketId == GetUserSocket(userSocketMap, userId)
    IN currentSocketId # NoSocket /\ IsConnected(currentSocketId)

\* processUserDisconnect(userId, roomId), run by the grace timer: the state it
\* leaves and what it emits
ProcessUserDisconnect(userId, roomId) ==
    IF CurrentSocketConnected(userId)
       THEN [rooms |-> rooms, usm |-> userSocketMap, urm |-> userRoomMap,
             logged |-> loggedInUsers, routers |-> routers, emitted |-> <<>>,
             committed |-> FALSE]
       ELSE LET hud == HandleUserDisconnect(rooms, userSocketMap, userRoomMap, userId)
                result == hud.result
                membersWithDetails ==
                    IF result.roomDeleted THEN <<>>
                    ELSE GetRoomMembersWithDetails(hud.rooms, loggedInUsers, roomId)
                memberLeft ==
                    Ev("member-left", roomId, NoSocket,
                       [memberId |-> result.memberId, members |-> result.members,
                        membersWithDetails |-> membersWithDetails])
                roomDeleted ==
                    Ev("room-deleted", roomId, NoSocket,
                       [message |-> "Host has left the room"])
                closeRoom == Ev("closeRoom", roomId, NoSocket, <<>>)
                notify == result.ok /\ roomId # NoRoom
            IN [rooms |-> hud.rooms, usm |-> hud.usm, urm |-> hud.urm,
                logged |-> RemoveLoggedInUser(loggedInUsers, userId),
                routers |-> IF notify /\ result.roomDeleted
                            THEN CloseRoom(routers, roomId) ELSE routers,
                emitted |-> IF ~notify THEN <<>>
                            ELSE IF result.roomDeleted
                            THEN <<memberLeft, roomDeleted, closeRoom>>
                            ELSE <<memberLeft>>,
                committed |-> TRUE]

\* the grace timer of userId expires
GraceTimerFire(userId) ==
    /\ userId \in DOMAIN pendingDisconnects
    /\ pendingDisconnects' = Del(pendingDisconnects, userId)
    /\ LET p == ProcessUserDisconnect(userId, pendingDisconnects[userId])
       IN /\ rooms' = p.rooms
          /\ userSocketMap' = p.usm
          /\ userRoomMap' = p.urm
          /\ loggedInUsers' = p.logged
          /\ routers' = p.routers
          /\ emitted' = p.emitted
          /\ last' = Handled("timer", NoSocket, userId, pendingDisconnects[userId],
                             p.committed)
    /\ UNCHANGED <<status, routerCalls, engineIds, requests>>
    /\ UNCHANGED <<poolVars, chatVars, socketRooms>>
    /\ delivered' = <<>>

\* handleLeaveRoom: the state it leaves and what it emits
LeaveRoomOutcome(roomId, memberId) ==
    LET lv == LeaveRoom(rooms, roomId, memberId)
        result == lv.result
    IN [rooms |-> lv.rooms,
        usm |-> DeleteUserSocket(userSocketMap, memberId),
        urm |-> Del(userRoomMap, memberId),
        logged |-> RemoveLoggedInUser(loggedInUsers, memberId),
        routers |-> routers,
        emitted |-> IF result.ok
                    THEN <<Ev("member-left", roomId, NoSocket,
                              [memberId |-> result.memberId,
                               members |-> result.members])>>
                    ELSE <<>>,
        ok |-> result.ok]

HandleLeaveRoom(c, roomId, memberId) ==
    /\ Receive(c)
    /\ roomId # NoRoom
    /\ LET o == LeaveRoomOutcome(roomId, memberId)
       IN /\ rooms' = o.rooms
          /\ userSocketMap' = o.usm
          /\ userRoomMap' = o.urm
          /\ loggedInUsers' = o.logged
          /\ routers' = o.routers
          /\ emitted' = o.emitted
          /\ last' = Handled("leave-room", c, memberId, roomId, o.ok)
    /\ socketRooms' = SocketLeave(socketRooms, c, roomId)
    /\ UNCHANGED <<pendingDisconnects, status, routerCalls, engineIds>>
    /\ UNCHANGED <<poolVars, chatVars>>
    /\ delivered' = <<>>

\* a check that never sees the viewers of the existing room
HasNoExistingViewers(rs, existingRoomId) == FALSE

\* existingRoom && existingRoom.members.length > 1
HasExistingViewers(rs, existingRoomId) ==
    /\ existingRoomId # NoRoom
    /\ existingRoomId \in DOMAIN rs
    /\ Len(rs[existingRoomId].members) > 1

\* a reconnect that announces no closed producer
ProducerClosedEventsNone(closed, roomId) == <<>>

ProducerClosedEvents(closed, roomId) ==
    [i \in 1..Len(closed) |->
        Ev("producerClosed", roomId, NoSocket, [producerId |-> closed[i]])]

HandleCreateRoom(c, hostId, name, sync) ==
    /\ Receive(c)
    /\ LET pd1 == CancelPendingDisconnect(pendingDisconnects, hostId)
           existingRoomId == GetUserRoom(userRoomMap, hostId)
           hasExistingViewers == HasExistingViewers(rooms, existingRoomId)
           existingSocketId == GetUserSocket(userSocketMap, hostId)
           reconnecting ==
               existingRoomId # NoRoom /\ existingSocketId # NoSocket /\ existingSocketId # c
           \* clean up the media of the old connection, rebind, then force-close it
           cleanup == IF reconnecting
                      THEN CleanupUserMedia(routers, existingRoomId, existingSocketId)
                      ELSE [routers |-> routers, closed |-> <<>>]
           usm1 == IF reconnecting THEN RebindBeforeClose(userSocketMap, hostId, c)
                   ELSE userSocketMap
           fc == IF reconnecting
                 THEN ForceClose(status, pd1, usm1, userRoomMap, existingSocketId, sync)
                 ELSE [status |-> status, pd |-> pd1]
           \* no viewers: leave the old room (a clean recreate)
           lv == IF existingRoomId # NoRoom /\ ~hasExistingViewers
                 THEN LeaveRoom(rooms, existingRoomId, hostId)
                 ELSE [rooms |-> rooms, result |-> NullResult]
           \* get or create the room
           rooms2 == CreateRoom(lv.rooms, hostId)
           roomId == GenerateRoomId(hostId)
           room == rooms2[roomId]
           isRejoining == Len(room.members) > 1
           usm2 == SetUserSocket(usm1, hostId, c)
           urm2 == Put(userRoomMap, hostId, roomId)
           logged2 == AddLoggedInUser(loggedInUsers, hostId, name, roomId, c)
           roomCreated ==
               Ev("room-created", c, NoSocket,
                  [roomId |-> roomId, hostId |-> room.hostId, members |-> room.members,
                   membersWithDetails |-> GetRoomMembersWithDetails(rooms2, logged2, roomId),
                   theme |-> ThemeOrNone(room.theme)])
           hostReconnected ==
               Ev("host-reconnected", roomId, c, [hostId |-> hostId, hostSocketId |-> c])
       IN /\ sync => (reconnecting /\ IsConnected(existingSocketId))
          /\ pendingDisconnects' = fc.pd
          /\ rooms' = rooms2
          /\ userSocketMap' = usm2
          /\ userRoomMap' = urm2
          /\ loggedInUsers' = logged2
          /\ status' = fc.status
          /\ routers' = cleanup.routers
          /\ emitted' = ProducerClosedEvents(cleanup.closed, existingRoomId)
                        \o <<roomCreated>>
                        \o (IF isRejoining THEN <<hostReconnected>> ELSE <<>>)
          /\ last' = Handled("create-room", c, hostId, roomId,
                             hostId \in DOMAIN pendingDisconnects)
          /\ socketRooms' =
                 LeaveAll(SocketJoin(IF lv.result.ok
                                     THEN SocketLeave(socketRooms, c, existingRoomId)
                                     ELSE socketRooms,
                                     c, roomId),
                          fc.status)
    /\ UNCHANGED <<routerCalls, engineIds>>
    /\ UNCHANGED <<poolVars, chatVars>>
    /\ delivered' = ChatHistoryAfter(emitted', c, GenerateRoomId(hostId))

ErrorEvent(c, message) == Ev("error", c, NoSocket, [message |-> message])

\* room-joined to the joiner, member-joined to the rest of the room and
\* viewer-joined to the host's connection
\* the template string `The name "${data.name}" is already taken ...`
NameTakenMessage(name) ==
    <<"The name \"", name, "\" is already taken in this room. Please choose another name.">>

\* a name check that finds no name taken
DuplicateNameNever(details, name, memberId) == FALSE

DuplicateName(details, name, memberId) ==
    \E i \in 1..Len(details) : details[i].name = name /\ details[i].genID # memberId

\* join events that leave the host without viewer-joined
JoinEventsWithoutViewerJoined(c, roomId, memberId, name, hostId, members, details, theme, usm) ==
    <<Ev("room-joined", c, NoSocket,
         [roomId |-> roomId, hostId |-> hostId, members |-> members,
          membersWithDetails |-> details, theme |-> ThemeOrNone(theme)]),
      Ev("member-joined", roomId, c,
         [memberId |-> memberId, memberName |-> name, members |-> members,
          membersWithDetails |-> details])>>

JoinEvents(c, roomId, memberId, name, hostId, members, details, theme, usm) ==
    LET hostSocketId == GetUserSocket(usm, hostId)
    IN <<Ev("room-joined", c, NoSocket,
            [roomId |-> roomId, hostId |-> hostId, members |-> members,
             membersWithDetails |-> details, theme |-> ThemeOrNone(theme)]),
         Ev("member-joined", roomId, c,
            [memberId |-> memberId, memberName |-> name, members |-> members,
             membersWithDetails |-> details])>>
       \o (IF memberId # hostId /\ hostSocketId # NoSocket
           THEN <<Ev("viewer-joined", hostSocketId, NoSocket, [viewerId |-> c])>>
           ELSE <<>>)

HandleJoinRoom(c, roomId, memberId, name, sync) ==
    /\ Receive(c)
    /\ UNCHANGED <<routerCalls, engineIds>>
    /\ last' = HandledJoin(c, memberId, roomId, name,
                           roomId \in DOMAIN rooms /\ memberId \in DOMAIN pendingDisconnects)
    /\ IF roomId \notin DOMAIN rooms
       THEN /\ ~sync
            /\ emitted' = <<ErrorEvent(c, "Room not found")>>
            /\ UNCHANGED <<rooms, userSocketMap, userRoomMap, loggedInUsers,
                           pendingDisconnects, status, routers, socketRooms>>
       ELSE
       LET room == rooms[roomId]
           wasReconnecting == memberId \in DOMAIN pendingDisconnects
           pd1 == CancelPendingDisconnect(pendingDisconnects, memberId)
           isAlreadyInRoom == Includes(room.members, memberId)
           details0 == GetRoomMembersWithDetails(rooms, loggedInUsers, roomId)
           duplicateName ==
               ~isAlreadyInRoom /\ DuplicateName(details0, name, memberId)
           isLoggedInToRoom == IsUserLoggedInToRoom(loggedInUsers, memberId, roomId)
           existingSocketId == GetUserSocket(userSocketMap, memberId)
       IN IF duplicateName
          THEN /\ ~sync
               /\ pendingDisconnects' = pd1
               /\ emitted' = <<ErrorEvent(c, NameTakenMessage(name))>>
               /\ UNCHANGED <<rooms, userSocketMap, userRoomMap, loggedInUsers,
                              status, routers, socketRooms>>
          ELSE IF isAlreadyInRoom \/ wasReconnecting \/ isLoggedInToRoom
          THEN \* reconnection: rebind, then force-close the old connection
               LET rebinding == existingSocketId # NoSocket /\ existingSocketId # c
                   usm0 == IF rebinding THEN RebindBeforeClose(userSocketMap, memberId, c)
                           ELSE userSocketMap
                   fc == IF rebinding
                         THEN ForceClose(status, pd1, usm0, userRoomMap,
                                         existingSocketId, sync)
                         ELSE [status |-> status, pd |-> pd1]
                   usm1 == SetUserSocket(usm0, memberId, c)
                   urm1 == Put(userRoomMap, memberId, roomId)
                   logged1 == AddLoggedInUser(loggedInUsers, memberId, name, roomId, c)
                   rooms1 == IF ~isAlreadyInRoom THEN JoinRoom(rooms, roomId, memberId)
                             ELSE rooms
               IN /\ sync => (rebinding /\ IsConnected(existingSocketId))
                  /\ pendingDisconnects' = fc.pd
                  /\ status' = fc.status
                  /\ userSocketMap' = usm1
                  /\ userRoomMap' = urm1
                  /\ loggedInUsers' = logged1
                  /\ rooms' = rooms1
                  /\ emitted' = JoinEvents(c, roomId, memberId, name, room.hostId,
                                    rooms1[roomId].members,
                                    GetRoomMembersWithDetails(rooms1, logged1, roomId),
                                    room.theme, usm1)
                  /\ socketRooms' = LeaveAll(SocketJoin(socketRooms, c, roomId), fc.status)
                  /\ UNCHANGED routers
          ELSE \* fresh join: leave a different room first
               LET existingRoomId == GetUserRoom(userRoomMap, memberId)
                   lv == IF existingRoomId # NoRoom /\ existingRoomId # roomId
                         THEN LeaveRoom(rooms, existingRoomId, memberId)
                         ELSE [rooms |-> rooms, result |-> NullResult]
                   ev1 == IF lv.result.ok
                          THEN <<Ev("member-left", existingRoomId, NoSocket,
                                    [memberId |-> lv.result.memberId,
                                     members |-> lv.result.members])>>
                          ELSE <<>>
                   rooms1 == JoinRoom(lv.rooms, roomId, memberId)
                   left == IF lv.result.ok
                           THEN SocketLeave(socketRooms, c, existingRoomId)
                           ELSE socketRooms
               IN /\ ~sync
                  /\ pendingDisconnects' = pd1
                  /\ IF roomId \notin DOMAIN lv.rooms
                     THEN \* joinRoom returned null
                          /\ rooms' = lv.rooms
                          /\ emitted' = ev1 \o <<ErrorEvent(c, "Failed to join room")>>
                          /\ socketRooms' = left
                          /\ UNCHANGED <<userSocketMap, userRoomMap, loggedInUsers,
                                         status, routers>>
                     ELSE LET usm1 == SetUserSocket(userSocketMap, memberId, c)
                              urm1 == Put(userRoomMap, memberId, roomId)
                              logged1 == AddLoggedInUser(loggedInUsers, memberId,
                                                         name, roomId, c)
                          IN /\ rooms' = rooms1
                             /\ userSocketMap' = usm1
                             /\ userRoomMap' = urm1
                             /\ loggedInUsers' = logged1
                             /\ emitted' = ev1 \o
                                    JoinEvents(c, roomId, memberId, name,
                                        rooms1[roomId].hostId, rooms1[roomId].members,
                                        GetRoomMembersWithDetails(rooms1, logged1, roomId),
                                        rooms1[roomId].theme, usm1)
                             /\ socketRooms' = SocketJoin(left, c, roomId)
                             /\ UNCHANGED <<status, routers>>
    /\ UNCHANGED <<poolVars, chatVars>>
    /\ delivered' = ChatHistoryAfter(emitted', c, roomId)

RouterRtpCapabilities(c, rt, roomId) ==
    Ev("routerRtpCapabilities", c, NoSocket, [router |-> rt[roomId].router])

\* handleGetRouterRtpCapabilities up to the await inside createRouter: a
\* router that exists is returned at once, otherwise the worker is asked
\* for one
GetRouterRtpCapabilitiesCall(c, roomId) ==
    /\ Receive(c)
    /\ IF roomId \in DOMAIN routers
       THEN /\ emitted' = <<RouterRtpCapabilities(c, routers, roomId)>>
            /\ UNCHANGED routerCalls
       ELSE /\ Cardinality(routerCalls) < MaxRouterCalls
            /\ <<c, roomId>> \notin routerCalls
            /\ routerCalls' = routerCalls \cup {<<c, roomId>>}
            /\ emitted' = <<>>
    /\ last' = Handled("getRouterRtpCapabilities", c, NoUser, roomId, FALSE)
    /\ UNCHANGED <<rooms, userSocketMap, userRoomMap, loggedInUsers,
                   pendingDisconnects, status, routers, engineIds>>
    /\ UNCHANGED <<poolVars, chatVars, socketRooms>>
    /\ delivered' = <<>>

\* a createRouter that looks again after its await and keeps a bundle that
\* was recorded meanwhile
CreateRouterKeepExisting(rt, roomId, router) ==
    IF roomId \in DOMAIN rt THEN rt ELSE Put(rt, roomId, NewBundle(router))

\* createRouter after its await: routers.set(roomId, fresh bundle)
CreateRouterRecord(rt, roomId, router) == Put(rt, roomId, NewBundle(router))

\* the worker's router arrives: createRouter records a fresh bundle and the
\* handler replies with the capabilities of the router the map holds
GetRouterRtpCapabilitiesReturn(c, roomId, rejects) ==
    /\ <<c, roomId>> \in routerCalls
    /\ routerCalls' = routerCalls \ {<<c, roomId>>}
    /\ IF rejects
       THEN /\ emitted' = <<>>
            /\ UNCHANGED routers
       ELSE /\ routers' = CreateRouterRecord(routers, roomId, <<c, roomId>>)
            /\ emitted' = <<RouterRtpCapabilities(c, routers', roomId)>>
    /\ last' = HandledEngine("routerCreated", c, roomId, ~rejects, rejects)
    /\ UNCHANGED <<rooms, userSocketMap, userRoomMap, loggedInUsers,
                   pendingDisconnects, status, engineIds, requests>>
    /\ UNCHANGED <<poolVars, chatVars, socketRooms>>
    /\ delivered' = <<>>

\* handleCreateTransport: createWebRtcTransport(roomId, "<client.id>-<direction>")
HandleCreateTransport(c, roomId, direction, rejects) ==
    /\ Receive(c)
    /\ LET transportId == <<c, direction>>
           o == CreateWebRtcTransport(routers, roomId, transportId, rejects)
       IN /\ rejects => o.raised
          /\ routers' = o.routers
          /\ emitted' =
                 IF o.raised THEN <<>>
                 ELSE IF o.result # Null
                 THEN <<Ev("transportCreated", c, NoSocket,
                           [direction |-> direction, transportId |-> transportId])>>
                 ELSE <<ErrorEvent(c, "Failed to create transport")>>
          /\ last' = HandledEngine("createTransport", c, roomId, o.result # Null, o.raised)
    /\ UNCHANGED <<rooms, userSocketMap, userRoomMap, loggedInUsers,
                   pendingDisconnects, status, routerCalls, engineIds>>
    /\ UNCHANGED <<poolVars, chatVars, socketRooms>>
    /\ delivered' = <<>>

\* handleConnectTransport
HandleConnectTransport(c, roomId, transportId, rejects) ==
    /\ Receive(c)
    /\ LET o == ConnectTransport(routers, roomId, transportId, rejects)
       IN /\ rejects => o.raised
          /\ emitted' =
                 IF o.raised THEN <<>>
                 ELSE IF o.result
                 THEN <<Ev("transportConnected", c, NoSocket, [transportId |-> transportId])>>
                 ELSE <<ErrorEvent(c, "Failed to connect transport")>>
          /\ last' = HandledEngine("connectTransport", c, roomId, o.result, o.raised)
    /\ UNCHANGED <<rooms, userSocketMap, userRoomMap, loggedInUsers,
                   pendingDisconnects, status, routers, routerCalls, engineIds>>
    /\ UNCHANGED <<poolVars, chatVars, socketRooms>>
    /\ delivered' = <<>>

\* handleProduce: the producer is stored under the id the engine assigns
HandleProduce(c, roomId, transportId, rejects) ==
    /\ Receive(c)
    /\ engineIds < MaxEngineIds
    /\ LET producerId == <<"producer", engineIds + 1>>
           o == Produce(routers, roomId, transportId, producerId, rejects)
           ok == o.result # Null
       IN /\ rejects => o.raised
          /\ routers' = o.routers
          /\ engineIds' = IF ok THEN engineIds + 1 ELSE engineIds
          /\ emitted' =
                 IF o.raised THEN <<>>
                 ELSE IF ok
                 THEN <<Ev("produced", c, NoSocket, [id |-> producerId]),
                        Ev("newProducer", roomId, c, [producerId |-> producerId])>>
                 ELSE <<ErrorEvent(c, "Failed to produce")>>
          /\ last' = HandledEngine("produce", c, roomId, ok, o.raised)
    /\ UNCHANGED <<rooms, userSocketMap, userRoomMap, loggedInUsers,
                   pendingDisconnects, status, routerCalls>>
    /\ UNCHANGED <<poolVars, chatVars, socketRooms>>
    /\ delivered' = <<>>

\* handleConsume: the consumer is stored under the id the engine assigns
HandleConsume(c, roomId, transportId, producerId, canConsume, rejects) ==
    /\ Receive(c)
    /\ engineIds < MaxEngineIds
    /\ LET consumerId == <<"consumer", engineIds + 1>>
           o == Consume(routers, roomId, transportId, producerId, canConsume,
                        consumerId, rejects)
           ok == o.result # Null
       IN /\ rejects => o.raised
          /\ routers' = o.routers
          /\ engineIds' = IF ok THEN engineIds + 1 ELSE engineIds
          /\ emitted' =
                 IF o.raised THEN <<>>
                 ELSE IF ok
                 THEN <<Ev("consumed", c, NoSocket,
                           [id |-> consumerId, producerId |-> producerId])>>
                 ELSE <<ErrorEvent(c, "Failed to consume")>>
          /\ last' = HandledEngine("consume", c, roomId, ok, o.raised)
    /\ UNCHANGED <<rooms, userSocketMap, userRoomMap, loggedInUsers,
                   pendingDisconnects, status, routerCalls>>
    /\ UNCHANGED <<poolVars, chatVars, socketRooms>>
    /\ delivered' = <<>>

\* handleResumeConsumer
HandleResumeConsumer(c, roomId, consumerId, rejects) ==
    /\ Receive(c)
    /\ LET o == ResumeConsumer(routers, roomId, consumerId, rejects)
       IN /\ rejects => o.raised
          /\ emitted' =
                 IF o.raised THEN <<>>
                 ELSE IF o.result
                 THEN <<Ev("consumerResumed", c, NoSocket, [consumerId |-> consumerId])>>
                 ELSE <<ErrorEvent(c, "Failed to resume consumer")>>
          /\ last' = HandledEngine("resumeConsumer", c, roomId, o.result, o.raised)
    /\ UNCHANGED <<rooms, userSocketMap, userRoomMap, loggedInUsers,
                   pendingDisconnects, status, routers, routerCalls, engineIds>>
    /\ UNCHANGED <<poolVars, chatVars, socketRooms>>
    /\ delivered' = <<>>

\* handleGetProducers
HandleGetProducers(c, roomId) ==
    /\ Receive(c)
    /\ emitted' = <<Ev("producers", c, NoSocket,
                       [producers |-> GetProducers(routers, roomId)])>>
    /\ last' = HandledEngine("getProducers", c, roomId, roomId \in DOMAIN routers, FALSE)
    /\ UNCHANGED <<rooms, userSocketMap, userRoomMap, loggedInUsers,
                   pendingDisconnects, status, routers, routerCalls, engineIds>>
    /\ UNCHANGED <<poolVars, chatVars, socketRooms>>
    /\ delivered' = <<>>

\* handleCloseProducer: producerClosed goes to the room whatever was closed
HandleCloseProducer(c, roomId, producerId) ==
    /\ Receive(c)
    /\ routers' = CloseProducer(routers, roomId, producerId)
    /\ emitted' = <<Ev("producerClosed", roomId, c, [producerId |-> producerId])>>
    /\ last' = HandledEngine("closeProducer", c, roomId, routers' # routers, FALSE)
    /\ UNCHANGED <<rooms, userSocketMap, userRoomMap, loggedInUsers,
                   pendingDisconnects, status, routerCalls, engineIds>>
    /\ UNCHANGED <<poolVars, chatVars, socketRooms>>
    /\ delivered' = <<>>

\* RoomsService.updateRoomTheme: set the theme of a room that exists
UpdateRoomTheme(rs, roomId, theme) ==
    IF roomId \in DOMAIN rs THEN [rs EXCEPT ![roomId].theme = theme] ELSE rs

HandleUpdateTheme(c, roomId, theme) ==
    /\ Receive(c)
    /\ rooms' = UpdateRoomTheme(rooms, roomId, theme)
    /\ emitted' = IF roomId \in DOMAIN rooms
                  THEN <<Ev("theme-updated", roomId, NoSocket, [theme |-> theme])>>
                  ELSE <<>>
    /\ last' = Handled("update-theme", c, NoUser, roomId, roomId \in DOMAIN rooms)
    /\ UNCHANGED <<userSocketMap, userRoomMap, loggedInUsers, pendingDisconnects,
                   status, routers, routerCalls, engineIds>>
    /\ UNCHANGED <<poolVars, chatVars, socketRooms>>
    /\ delivered' = <<>>

\* a client leaves the room it is in
ClientRoom(c) == GetUserRoom(userRoomMap, Owner(c))

\* the room and presence orchestration
Next ==
    \/ \E c \in Sockets : HandleConnection(c)
    \/ \E c \in Sockets : HandleDisconnect(c)
    \/ \E u \in Users : GraceTimerFire(u)
    \/ \E c \in Sockets, n \in Names, sync \in BOOLEAN :
           HandleCreateRoom(c, Owner(c), n, sync)
    \/ \E c \in Sockets, r \in RoomIds, n \in Names, sync \in BOOLEAN :
           HandleJoinRoom(c, r, Owner(c), n, sync)
    \/ \E c \in Sockets : HandleLeaveRoom(c, ClientRoom(c), Owner(c))
    \/ \E c \in Sockets, r \in RoomIds, t \in Themes : HandleUpdateTheme(c, r, t)

Spec == Init /\ [][Next]_vars

\* The orchestration together with the SFU signalling.  A behaviour starts
\* when host 1 has created its room on its first connection, viewer 2 has
\* joined it on its first connection (two requests), and the clients have set
\* up none, some or all of: the room's router, the host's send transport, the
\* viewer's recv transport, a producer of the host and a consumer of the
\* viewer.
MediaHost == 1

MediaViewer == 2

MediaRoom == GenerateRoomId(MediaHost)

MediaBundles ==
    LET c1 == <<MediaHost, 1>>
        c2 == <<MediaViewer, 1>>
        producer == [id |-> <<"producer", 1>>, transport |-> <<c1, "send">>]
        consumer == [id |-> <<"consumer", 2>>, transport |-> <<c2, "recv">>,
                     producer |-> producer.id]
    IN {b \in [router : {<<c1, MediaRoom>>},
               transports : SUBSET {<<c1, "send">>, <<c2, "recv">>},
               producers : {<<>>, <<producer>>},
               consumers : {{}, {consumer}}] :
          /\ b.producers # <<>> => <<c1, "send">> \in b.transports
          /\ b.consumers # {} => (b.producers # <<>> /\ <<c2, "recv">> \in b.transports)}

InitMedia ==
    LET c1 == <<MediaHost, 1>>
        c2 == <<MediaViewer, 1>>
        hostName == <<"name", 1>>
        viewerName == <<"name", 2>>
    IN /\ rooms = JoinRoom(CreateRoom(<<>>, MediaHost), MediaRoom, MediaViewer)
       /\ userSocketMap =
              SetUserSocket(SetUserSocket(<<>>, MediaHost, c1), MediaViewer, c2)
       /\ userRoomMap = Put(Put(<<>>, MediaHost, MediaRoom), MediaViewer, MediaRoom)
       /\ loggedInUsers =
              AddLoggedInUser(AddLoggedInUser(<<>>, MediaHost, hostName, MediaRoom, c1),
                              MediaViewer, viewerName, MediaRoom, c2)
       /\ pendingDisconnects = <<>>
       /\ status = [s \in Sockets |-> IF s \in {c1, c2} THEN "live" ELSE "new"]
       /\ routers \in {<<>>} \cup {Put(<<>>, MediaRoom, b) : b \in MediaBundles}
       /\ routerCalls = {}
       /\ engineIds = IF MediaRoom \in DOMAIN routers
                      THEN Len(routers[MediaRoom].producers)
                           + Cardinality(routers[MediaRoom].consumers)
                      ELSE 0
       /\ requests = 2
       /\ last = Handled("init", NoSocket, NoUser, NoRoom, FALSE)
       /\ emitted = <<>>
       /\ socketRooms = [s \in Sockets |-> IF s \in {c1, c2} THEN {MediaRoom} ELSE {}]
       /\ InitPool
       /\ InitStorage

NextMedia ==
    \/ \E c \in Sockets : HandleConnection(c)
    \/ \E c \in Sockets : HandleDisconnect(c)
    \/ \E u \in Users : GraceTimerFire(u)
    \/ \E c \in Sockets, n \in Names, sync \in BOOLEAN :
           HandleCreateRoom(c, Owner(c), n, sync)
    \/ \E c \in Sockets, r \in RoomIds, n \in Names, sync \in BOOLEAN :
           HandleJoinRoom(c, r, Owner(c), n, sync)
    \/ \E c \in Sockets : HandleLeaveRoom(c, ClientRoom(c), Owner(c))
    \/ \E c \in Sockets, r \in RoomIds : GetRouterRtpCapabilitiesCall(c, r)
    \/ \E c \in Sockets, r \in RoomIds, rejects \in BOOLEAN :
           GetRouterRtpCapabilitiesReturn(c, r, rejects)
    \/ \E c \in Sockets, r \in RoomIds, d \in Directions, rejects \in BOOLEAN :
           HandleCreateTransport(c, r, d, rejects)
    \/ \E c \in Sockets, r \in RoomIds, d \in Directions, rejects \in BOOLEAN :
           HandleConnectTransport(c, r, <<c, d>>, rejects)
    \/ \E c \in Sockets, r \in RoomIds, d \in Directions, rejects \in BOOLEAN :
           HandleProduce(c, r, <<c, d>>, rejects)
    \/ \E c \in Sockets, r \in RoomIds, d \in Directions, k \in 1..MaxEngineIds,
          canConsume \in BOOLEAN, rejects \in BOOLEAN :
           HandleConsume(c, r, <<c, d>>, <<"producer", k>>, canConsume, rejects)
    \/ \E c \in Sockets, r \in RoomIds, k \in 1..MaxEngineIds, rejects \in BOOLEAN :
           HandleResumeConsumer(c, r, <<"consumer", k>>, rejects)

SpecMedia == InitMedia /\ [][NextMedia]_vars

\* the SFU signalling alone, over the same starting states: every request a
\* client can send to the media facade, with ids that exist and ids that do not
NextFacade ==
    \/ \E c \in Sockets, r \in RoomIds : GetRouterRtpCapabilitiesCall(c, r)
    \/ \E c \in Sockets, r \in RoomIds, rejects \in BOOLEAN :
           GetRouterRtpCapabilitiesReturn(c, r, rejects)
    \/ \E c \in Sockets, r \in RoomIds, d \in Directions, rejects \in BOOLEAN :
           HandleCreateTransport(c, r, d, rejects)
    \/ \E c \in Sockets, r \in RoomIds, t \in Sockets \X Directions, rejects \in BOOLEAN :
           HandleConnectTransport(c, r, t, rejects)
    \/ \E c \in Sockets, r \in RoomIds, t \in Sockets \X Directions, rejects \in BOOLEAN :
           HandleProduce(c, r, t, rejects)
    \/ \E c \in Sockets, r \in RoomIds, t \in Sockets \X Directions,
          k \in 1..MaxEngineIds, canConsume \in BOOLEAN, rejects \in BOOLEAN :
           HandleConsume(c, r, t, <<"producer", k>>, canConsume, rejects)
    \/ \E c \in Sockets, r \in RoomIds, k \in 1..MaxEngineIds, rejects \in BOOLEAN :
           HandleResumeConsumer(c, r, <<"consumer", k>>, rejects)
    \/ \E c \in Sockets, r \in RoomIds : HandleGetProducers(c, r)
    \/ \E c \in Sockets, r \in RoomIds, k \in 1..MaxEngineIds :
           HandleCloseProducer(c, r, <<"producer", k>>)

SpecFacade == InitMedia /\ [][NextFacade]_vars

\* three hosts, each in a room of its own: the rooms and presence after
\* create-room by users 1..NumUsersWide, each on its first connection
UsersWide == 1..NumUsersWide

SocketsWide == UsersWide \X (1..MaxConns)

RoomIdsWide == {GenerateRoomId(u) : u \in UsersWide}

HostName(u) == <<"name", ((u - 1) % NumNames) + 1>>

RECURSIVE HostsCreated(_)
HostsCreated(n) ==
    IF n = 0
    THEN [rooms |-> <<>>, usm |-> <<>>, urm |-> <<>>, logged |-> <<>>]
    ELSE LET before == HostsCreated(n - 1)
             roomId == GenerateRoomId(n)
         IN [rooms |-> CreateRoom(before.rooms, n),
             usm |-> SetUserSocket(before.usm, n, <<n, 1>>),
             urm |-> Put(before.urm, n, roomId),
             logged |-> AddLoggedInUser(before.logged, n, HostName(n), roomId, <<n, 1>>)]

InitWide ==
    LET created == HostsCreated(NumUsersWide)
    IN /\ rooms = created.rooms
       /\ userSocketMap = created.usm
       /\ userRoomMap = created.urm
       /\ loggedInUsers = created.logged
       /\ pendingDisconnects = <<>>
       /\ status = [s \in SocketsWide |-> IF s[2] = 1 THEN "live" ELSE "new"]
       /\ routers = <<>>
       /\ routerCalls = {}
       /\ engineIds = 0
       /\ requests = MaxRequests - 2
       /\ last = Handled("init", NoSocket, NoUser, NoRoom, FALSE)
       /\ emitted = <<>>
       /\ socketRooms = [s \in SocketsWide |->
                             IF s[2] = 1 THEN {GenerateRoomId(s[1])} ELSE {}]
       /\ InitPool
       /\ InitStorage

HandleConnectionWide(c) == Connect(c, MaxConnsWide)

NextWide ==
    \/ \E c \in SocketsWide : HandleConnectionWide(c)
    \/ \E c \in SocketsWide : HandleDisconnect(c)
    \/ \E u \in UsersWide : GraceTimerFire(u)
    \/ \E c \in SocketsWide, n \in Names, sync \in BOOLEAN :
           HandleCreateRoom(c, Owner(c), n, sync)
    \/ \E c \in SocketsWide, r \in RoomIdsWide, n \in Names, sync \in BOOLEAN :
           HandleJoinRoom(c, r, Owner(c), n, sync)
    \/ \E c \in SocketsWide : HandleLeaveRoom(c, ClientRoom(c), Owner(c))

SpecWide == InitWide /\ [][NextWide]_vars

\* A client that announces itself under several userIds on one connection:
\* create-room and join-room take the userId from the payload and bind it to
\* the connection that carries the event, so a connection can be the bound
\* connection of more than one user.
BoundUsers(m, socketId) == {u \in DOMAIN m : m[u] = socketId}

\* handleDisconnect of such a connection.  findUserIdBySocketId returns the
\* first entry of the Map, in insertion order, that holds the socket id;
\* the model keeps the map without its order, so userId is any of the users
\* bound to the connection (NoUser if there is none), and that user alone
\* gets the grace timer.
HandleDisconnectShared(c, userId) ==
    /\ status[c] \in {"live", "closing"}
    /\ IF BoundUsers(userSocketMap, c) = {} THEN userId = NoUser
       ELSE userId \in BoundUsers(userSocketMap, c)
    /\ status' = [status EXCEPT ![c] = "closed"]
    /\ pendingDisconnects' =
           IF userId = NoUser THEN pendingDisconnects
           ELSE Put(pendingDisconnects, userId, GetUserRoom(userRoomMap, userId))
    /\ last' = Handled("disconnect", c, userId, NoRoom, status[c] = "closing")
    /\ emitted' = <<>>
    /\ socketRooms' = LeaveAll(socketRooms, status')
    /\ UNCHANGED <<rooms, userSocketMap, userRoomMap, loggedInUsers, routers,
                   routerCalls, engineIds, requests>>
    /\ UNCHANGED <<poolVars, chatVars>>
    /\ delivered' = <<>>

\* the orchestration with the userId of every event free; a forced close
\* completes in a handleDisconnect of its own
MaxConnsShared == 2

HandleConnectionShared(c) == Connect(c, MaxConnsShared)

NextShared ==
    \/ \E c \in Sockets : HandleConnectionShared(c)
    \/ \E c \in Sockets, u \in Users \cup {NoUser} : HandleDisconnectShared(c, u)
    \/ \E u \in Users : GraceTimerFire(u)
    \/ \E c \in Sockets, u \in Users, n \in Names : HandleCreateRoom(c, u, n, FALSE)
    \/ \E c \in Sockets, r \in RoomIds, u \in Users, n \in Names :
           HandleJoinRoom(c, r, u, n, FALSE)
    \/ \E c \in Sockets, r \in RoomIds, u \in Users : HandleLeaveRoom(c, r, u)

SpecShared == Init /\ [][NextShared]_vars

\* ------------------------------------------------------------ ChatGateway
MaxMessages == 2

NumEmojis == 2

Emojis == {<<"emoji", k>> : k \in 1..NumEmojis}

\* the ids uuidv4() mints, in the order in which it mints them
MessageIds == {<<"msg", k>> : k \in 1..MaxMessages}

\* new Message({id, userId, userName, message, timestamp, roomId})
Message(id, userId, timestamp, roomId) ==
    [id |-> id, userId |-> userId, timestamp |-> timestamp, roomId |-> roomId,
     reactions |-> <<>>]

\* handleSendMessage: the clock has advanced by tick since it was read last.
\* saveMessage pushes the message before saveData writes the file, so a
\* failed write leaves it in memory; the failure is logged and the message is
\* broadcast all the same.
HandleSendMessage(c, userId, roomId, tick, saveFails) ==
    /\ Receive(c)
    /\ uuids < MaxMessages
    /\ LET message == Message(<<"msg", uuids + 1>>, userId, now + tick, roomId)
       IN /\ messages' = Append(messages, message)
          /\ emitted' = <<Ev("chat-message", roomId, NoSocket, message)>>
    /\ now' = now + tick
    /\ uuids' = uuids + 1
    /\ last' = Handled("send-message", c, userId, roomId, ~saveFails)
    /\ delivered' = <<>>
    /\ UNCHANGED <<rooms, userSocketMap, userRoomMap, loggedInUsers,
                   pendingDisconnects, status, routers, routerCalls, engineIds,
                   poolVars, socketRooms>>

\* handleReactToMessage: addReaction toggles in memory and then writes the
\* file; 'Message not found' and a failed write both leave addReaction as an
\* error, which the handler logs without emitting
HandleReactToMessage(c, roomId, messageId, userId, emoji, saveFails) ==
    /\ Receive(c)
    /\ LET r == AddReaction(messages, roomId, messageId, userId, emoji)
       IN /\ saveFails => r.found
          /\ messages' = r.messages
          /\ emitted' = IF r.found /\ ~saveFails
                        THEN <<Ev("message-reaction-updated", roomId, NoSocket,
                                  [messageId |-> messageId, reactions |-> r.reactions])>>
                        ELSE <<>>
          /\ last' = HandledReact(c, userId, roomId, messageId, emoji,
                                  r.found /\ ~saveFails)
    /\ delivered' = <<>>
    /\ UNCHANGED <<rooms, userSocketMap, userRoomMap, loggedInUsers,
                   pendingDisconnects, status, routers, routerCalls, engineIds,
                   poolVars, now, uuids, socketRooms>>

\* the messages loadData finds in the data file: n messages of the room, one
\* per millisecond
StoredMessages(n) ==
    [j \in 1..n |-> Message(<<"old", j>>, MediaHost, j, MediaRoom)]

\* Rooms and chat: the host has created the room and the viewer has joined
\* it (two requests), the data file held no message, or as many as
\* or one less than getMessages returns
InitChat ==
    LET c1 == <<MediaHost, 1>>
        c2 == <<MediaViewer, 1>>
    IN /\ rooms = JoinRoom(CreateRoom(<<>>, MediaHost), MediaRoom, MediaViewer)
       /\ userSocketMap =
              SetUserSocket(SetUserSocket(<<>>, MediaHost, c1), MediaViewer, c2)
       /\ userRoomMap = Put(Put(<<>>, MediaHost, MediaRoom), MediaViewer, MediaRoom)
       /\ loggedInUsers =
              AddLoggedInUser(AddLoggedInUser(<<>>, MediaHost, <<"name", 1>>, MediaRoom, c1),
                              MediaViewer, <<"name", 2>>, MediaRoom, c2)
       /\ pendingDisconnects = <<>>
       /\ status = [s \in Sockets |-> IF s \in {c1, c2} THEN "live" ELSE "new"]
       /\ routers = <<>>
       /\ routerCalls = {}
       /\ engineIds = 0
       /\ requests = 2
       /\ last = Handled("init", NoSocket, NoUser, NoRoom, FALSE)
       /\ emitted = <<>>
       /\ socketRooms = [s \in Sockets |-> IF s \in {c1, c2} THEN {MediaRoom} ELSE {}]
       /\ InitPool
       /\ \E n \in {0, HistoryLimit - 1, HistoryLimit} :
              /\ messages = StoredMessages(n)
              /\ now = n
       /\ uuids = 0
       /\ delivered = <<>>

NextChat ==
    \/ \E c \in Sockets : HandleConnection(c)
    \/ \E c \in Sockets : HandleDisconnect(c)
    \/ \E u \in Users : GraceTimerFire(u)
    \/ \E c \in Sockets, n \in Names, sync \in BOOLEAN :
           HandleCreateRoom(c, Owner(c), n, sync)
    \/ \E c \in Sockets, r \in RoomIds, n \in Names, sync \in BOOLEAN :
           HandleJoinRoom(c, r, Owner(c), n, sync)
    \/ \E c \in Sockets, r \in RoomIds, tick \in 0..1, saveFails \in BOOLEAN :
           HandleSendMessage(c, Owner(c), r, tick, saveFails)
    \/ \E c \in Sockets, r \in RoomIds, m \in MessageIds \cup {<<"old", 1>>},
          e \in Emojis, saveFails \in BOOLEAN :
           HandleReactToMessage(c, r, m, Owner(c), e, saveFails)

SpecChat == InitChat /\ [][NextChat]_vars

\* ------------------------------------------- MediasoupService: worker pool
\* The service with auto-scaling and worker recovery.  createRouter and
\* closeRoom are called by the gateway, 'died' is raised by the engine, and
\* every await of the service is a point where the other calls interleave.
MaxCpus == 3

MaxDeaths == 1

MaxPoolCalls == 3

MaxPasses == 2

MaxSampled == 3

MaxPids == 6

\* thresholds and samples in percent of one CPU
RESOURCE_USAGE_THRESHOLD == 75

SCALE_DOWN_THRESHOLD == 30

\* a worker's sampled usage: Math.min(cpu seconds, 1.0)
CpuLevels == {0, 80}

\* what the gateway owns and the service never touches
gatewayVars == <<rooms, userSocketMap, userRoomMap, loggedInUsers,
                 pendingDisconnects, status, routerCalls, engineIds, emitted,
                 chatVars, delivered, socketRooms>>

MaxOf(S) == IF S = {} THEN 0 ELSE CHOOSE x \in S : \A y \in S : y <= x

RECURSIVE SumOf(_, _)
SumOf(f, S) == IF S = {} THEN 0
               ELSE LET k == CHOOSE x \in S : TRUE
                    IN f[k] + SumOf(f, S \ {k})

Elements(s) == {s[i] : i \in 1..Len(s)}

HandledPool(op, roomId, flag) == Handled(op, NoSocket, NoUser, roomId, flag)

\* onModuleInit: createWorkers sets the limits from the CPU count and creates
\* minWorkers workers in parallel; `created` are the indexes whose creation
\* was fulfilled, pushed in index order.  With none the startup throws.
OnModuleInit(cpuCount, created) ==
    /\ started = "no"
    /\ created \subseteq 1..Min(2, cpuCount)
    /\ maxWorkers' = cpuCount
    /\ minWorkers' = Min(2, cpuCount)
    /\ workers' = [i \in 1..Cardinality(created) |-> i]
    /\ pidCount' = Cardinality(created)
    /\ started' = IF created = {} THEN "failed" ELSE "running"
    /\ last' = HandledPool("onModuleInit", NoRoom, created # {})
    /\ UNCHANGED <<nextWorkerIndex, isScaling, workerResourceUsage, passes,
                   creating, recoveries, deaths, attempts, exitTimers>>
    /\ UNCHANGED <<gatewayVars, routers, requests>>

\* getNextWorker: workers[nextWorkerIndex], undefined outside the list, and
\* the index advanced modulo the length (NaN for an empty list, and NaN stays)
GetNextWorker(ws, index) ==
    [worker |-> IF index >= 0 /\ index < Len(ws) THEN Some(ws[index + 1]) ELSE Null,
     next |-> IF index = NaN \/ Len(ws) = 0 THEN NaN ELSE (index + 1) % Len(ws)]

\* checkAndScale up to its first await, without the isScaling gate
CheckAndScaleUngated(rt) ==
    IF Cardinality(DOMAIN rt) = 0
    THEN UNCHANGED <<isScaling, passes>>
    ELSE /\ isScaling' = TRUE
         /\ passes' = Append(passes, [pc |-> "sampling",
                                      currentWorkerCount |-> Len(workers),
                                      sampled |-> workers])

\* checkAndScale up to its first await, on the router map rt the caller
\* leaves: a pass in flight makes it return; with no routers the flag is set
\* and released at once; otherwise the pass remembers the pool size, asks
\* every worker of the pool for its usage and suspends
CheckAndScale(rt) ==
    IF isScaling
    THEN UNCHANGED <<isScaling, passes>>
    ELSE IF Cardinality(DOMAIN rt) = 0
    THEN UNCHANGED <<isScaling, passes>>
    ELSE /\ isScaling' = TRUE
         /\ passes' = Append(passes, [pc |-> "sampling",
                                      currentWorkerCount |-> Len(workers),
                                      sampled |-> workers])

\* createRouter up to its await: an existing router is returned, otherwise
\* the next worker is asked for one (a TypeError if there is none)
CreateRouterCall(roomId) ==
    /\ started = "running"
    /\ requests < MaxPoolCalls
    /\ requests' = requests + 1
    /\ IF roomId \in DOMAIN routers
       THEN /\ UNCHANGED <<nextWorkerIndex, creating>>
            /\ last' = HandledPool("createRouter", roomId, TRUE)
       ELSE LET next == GetNextWorker(workers, nextWorkerIndex)
            IN /\ Len(creating) < MaxRouterCalls
               /\ nextWorkerIndex' = next.next
               /\ creating' = IF next.worker = Null THEN creating
                              ELSE Append(creating, [room |-> roomId,
                                                     worker |-> next.worker[1]])
               /\ last' = HandledPool("createRouter", roomId, next.worker # Null)
    /\ UNCHANGED <<started, workers, minWorkers, maxWorkers, isScaling,
                   workerResourceUsage, passes, recoveries, pidCount, deaths,
                   attempts, exitTimers>>
    /\ UNCHANGED <<gatewayVars, routers>>

\* createRouter after its await: the bundle is recorded with the worker that
\* owns the router, and a scaling check is triggered.  A worker that has
\* died or was closed rejects the request.
CreateRouterReturn(i, rejects) ==
    /\ started = "running"
    /\ i \in 1..Len(creating)
    /\ ~Includes(workers, creating[i].worker) => rejects
    /\ creating' = Splice(creating, i)
    /\ IF rejects
       THEN UNCHANGED <<routers, isScaling, passes>>
       ELSE LET rt == Put(routers, creating[i].room,
                          NewBundle([workerId |-> creating[i].worker]))
            IN /\ routers' = rt
               /\ CheckAndScale(rt)
    /\ last' = HandledPool("createRouterReturn", creating[i].room, ~rejects)
    /\ UNCHANGED <<started, workers, nextWorkerIndex, minWorkers, maxWorkers,
                   workerResourceUsage, recoveries, pidCount, deaths, attempts,
                   exitTimers>>
    /\ UNCHANGED <<gatewayVars, requests>>

\* closeRoom: the bundle is removed and a scaling check is triggered; a room
\* without a router returns before the trigger
CloseRoomCall(roomId) ==
    /\ started = "running"
    /\ requests < MaxPoolCalls
    /\ requests' = requests + 1
    /\ IF roomId \notin DOMAIN routers
       THEN UNCHANGED <<routers, isScaling, passes>>
       ELSE LET rt == CloseRoom(routers, roomId)
            IN /\ routers' = rt
               /\ CheckAndScale(rt)
    /\ last' = HandledPool("closeRoom", roomId, roomId \in DOMAIN routers)
    /\ UNCHANGED <<started, workers, nextWorkerIndex, minWorkers, maxWorkers,
                   workerResourceUsage, creating, recoveries, pidCount, deaths,
                   attempts, exitTimers>>
    /\ UNCHANGED gatewayVars

\* calculateResourceUsage: over every entry of workerResourceUsage, the
\* average over the current length of the pool
CalculateResourceUsage(usage, ws) ==
    [maxCpuUsage |-> MaxOf({usage[p] : p \in DOMAIN usage}),
     totalCpu |-> SumOf(usage, DOMAIN usage),
     workerCount |-> Len(ws)]

\* avgCpuUsage < SCALE_DOWN_THRESHOLD, avgCpuUsage being 0 for an empty pool
AvgBelowThreshold(u) ==
    IF u.workerCount > 0 THEN u.totalCpu < SCALE_DOWN_THRESHOLD * u.workerCount
    ELSE 0 < SCALE_DOWN_THRESHOLD

ScaleUpIgnoringMaxWorkers(u, currentWorkerCount) ==
    u.maxCpuUsage > RESOURCE_USAGE_THRESHOLD

\* shouldScaleUp && currentWorkerCount < maxWorkers
ScaleUp(u, currentWorkerCount) ==
    u.maxCpuUsage > RESOURCE_USAGE_THRESHOLD /\ currentWorkerCount < maxWorkers

\* the else-if: currentWorkerCount > minWorkers && avgCpuUsage < SCALE_DOWN_THRESHOLD
ScaleDown(u, currentWorkerCount) ==
    currentWorkerCount > minWorkers /\ AvgBelowThreshold(u)

\* the usage map after updateWorkerResourceMetrics over the workers ws: a
\* sample that arrived replaces the worker's entry, a failed one leaves it
Sampled(usage, ws, samples) ==
    LET arrived == {k \in (1..Len(ws)) \cap DOMAIN samples : samples[k] # Null}
    IN [p \in (DOMAIN usage) \cup {ws[k] : k \in arrived} |->
           IF \E k \in arrived : ws[k] = p
           THEN samples[CHOOSE k \in arrived : ws[k] = p][1]
           ELSE usage[p]]

\* checkAndScale from the end of the sampling to its next await or its end:
\* scale up (createSingleWorker is awaited), scale down (the last worker of
\* the pool is popped and closed), or nothing; `finally` releases the flag
UpdateWorkerResourceMetricsReturn(i, samples) ==
    /\ started = "running"
    /\ i \in 1..Len(passes)
    /\ passes[i].pc = "sampling"
    /\ \A k \in 1..MaxSampled :
           (k > Len(passes[i].sampled) \/ ~Includes(workers, passes[i].sampled[k]))
               => samples[k] = Null
    /\ LET usage == Sampled(workerResourceUsage, passes[i].sampled, samples)
           u == CalculateResourceUsage(usage, workers)
           count == passes[i].currentWorkerCount
       IN IF ScaleUp(u, count)
          THEN /\ passes' = [passes EXCEPT ![i].pc = "creating"]
               /\ workerResourceUsage' = usage
               /\ last' = HandledPool("scaleUp", NoRoom, FALSE)
               /\ UNCHANGED <<workers, isScaling>>
          ELSE IF ScaleDown(u, count) /\ Len(workers) > 0
          THEN /\ workers' = SubSeq(workers, 1, Len(workers) - 1)
               /\ workerResourceUsage' = Del(usage, workers[Len(workers)])
               /\ passes' = Splice(passes, i)
               /\ isScaling' = FALSE
               /\ last' = HandledPool("scaleDown", NoRoom, TRUE)
          ELSE /\ workerResourceUsage' = usage
               /\ passes' = Splice(passes, i)
               /\ isScaling' = FALSE
               /\ last' = HandledPool("scaleNone", NoRoom, FALSE)
               /\ UNCHANGED workers
    /\ UNCHANGED <<started, nextWorkerIndex, minWorkers, maxWorkers, creating,
                   recoveries, pidCount, deaths, attempts, exitTimers>>
    /\ UNCHANGED <<gatewayVars, routers, requests>>

\* checkAndScale after createSingleWorker: the new worker joins the pool with
\* a zero usage entry, or the rejection is caught; `finally` releases the flag
ScaleUpReturn(i, rejects) ==
    /\ started = "running"
    /\ i \in 1..Len(passes)
    /\ passes[i].pc = "creating"
    /\ passes' = Splice(passes, i)
    /\ isScaling' = FALSE
    /\ IF rejects
       THEN UNCHANGED <<workers, workerResourceUsage, pidCount>>
       ELSE /\ workers' = Append(workers, pidCount + 1)
            /\ workerResourceUsage' = Put(workerResourceUsage, pidCount + 1, 0)
            /\ pidCount' = pidCount + 1
    /\ last' = HandledPool("scaleUpReturn", NoRoom, ~rejects)
    /\ UNCHANGED <<started, nextWorkerIndex, minWorkers, maxWorkers, creating,
                   recoveries, deaths, attempts, exitTimers>>
    /\ UNCHANGED <<gatewayVars, routers, requests>>

\* the 'died' handler of a worker: the worker leaves the pool and
\* recoverWorker is called, which suspends at createSingleWorker
WorkerDied(pid) ==
    /\ started = "running"
    /\ deaths < MaxDeaths
    /\ Includes(workers, pid)
    /\ workers' = Splice(workers, IndexOf(workers, pid))
    /\ deaths' = deaths + 1
    /\ attempts' = attempts + 1
    /\ recoveries' = recoveries + 1
    /\ last' = HandledPool("died", NoRoom, TRUE)
    /\ UNCHANGED <<started, nextWorkerIndex, minWorkers, maxWorkers, isScaling,
                   workerResourceUsage, passes, creating, pidCount, exitTimers>>
    /\ UNCHANGED <<gatewayVars, routers, requests>>

\* process termination is scheduled when a failed recovery leaves no worker
ExitWhenRecoveryFails(ws) == TRUE

ExitWhenPoolEmpty(ws) == Len(ws) = 0

\* recoverWorker after createSingleWorker: the replacement joins the pool, or
\* the rejection reaches the catch of the 'died' handler
RecoverWorkerReturn(rejects) ==
    /\ started = "running"
    /\ recoveries > 0
    /\ recoveries' = recoveries - 1
    /\ IF rejects
       THEN /\ exitTimers' = IF ExitWhenPoolEmpty(workers) THEN exitTimers + 1
                             ELSE exitTimers
            /\ UNCHANGED <<workers, pidCount>>
       ELSE /\ workers' = Append(workers, pidCount + 1)
            /\ pidCount' = pidCount + 1
            /\ UNCHANGED exitTimers
    /\ last' = HandledPool("recoverWorkerReturn", NoRoom, ~rejects)
    /\ UNCHANGED <<started, nextWorkerIndex, minWorkers, maxWorkers, isScaling,
                   workerResourceUsage, passes, creating, deaths, attempts>>
    /\ UNCHANGED <<gatewayVars, routers, requests>>

\* setTimeout(() => process.exit(1), 5000) fires
ProcessExit ==
    /\ started = "running"
    /\ exitTimers > 0
    /\ started' = "exited"
    /\ last' = HandledPool("exit", NoRoom, TRUE)
    /\ UNCHANGED <<workers, nextWorkerIndex, minWorkers, maxWorkers, isScaling,
                   workerResourceUsage, passes, creating, recoveries, pidCount,
                   deaths, attempts, exitTimers>>
    /\ UNCHANGED <<gatewayVars, routers, requests>>

\* the outcomes of one pass's sampling: for every worker asked, by its
\* position in the pool, a level or a failed request (the requests to workers
\* beyond MaxSampled fail)
Samples == [1..MaxSampled -> {Null} \cup {Some(l) : l \in CpuLevels}]

\* the service on its own, from construction: the gateway's createRouter and
\* closeRoom calls, and the engine's answers
NextScale ==
    \/ \E cpuCount \in 1..MaxCpus, created \in SUBSET (1..2) :
           OnModuleInit(cpuCount, created)
    \/ \E r \in RoomIds : CreateRouterCall(r)
    \/ \E i \in 1..MaxRouterCalls, rejects \in BOOLEAN : CreateRouterReturn(i, rejects)
    \/ \E r \in RoomIds : CloseRoomCall(r)
    \/ \E i \in 1..MaxPasses, samples \in Samples :
           UpdateWorkerResourceMetricsReturn(i, samples)
    \/ \E i \in 1..MaxPasses, rejects \in BOOLEAN : ScaleUpReturn(i, rejects)

SpecScale == Init /\ [][NextScale]_vars

\* the same with workers that die and are recovered
NextPool ==
    \/ NextScale
    \/ \E pid \in 1..MaxPids : WorkerDied(pid)
    \/ \E rejects \in BOOLEAN : RecoverWorkerReturn(rejects)
    \/ ProcessExit

SpecPool == Init /\ [][NextPool]_vars

\* at most one user is bound to a connection
OneUserPerSocket ==
    \A u, v \in DOMAIN userSocketMap : userSocketMap[u] = userSocketMap[v] => u = v


\* ----------------------------------------------------------- properties
MembersOf(rs, roomId) == IF roomId \in DOMAIN rs THEN rs[roomId].members ELSE <<>>

Without(s, x) == SelectSeq(s, LAMBDA m : m # x)

HasEvent(ev, type, to) == \E i \in 1..Len(ev) : ev[i].type = type /\ ev[i].to = to

\* the events of a trace that go to a room's broadcast scope
EventsToRoom(ev) ==
    {[type |-> ev[i].type, to |-> ev[i].to] :
        i \in {j \in 1..Len(ev) : ev[j].type # "closeRoom"}}

Live(st, socketId) == socketId # NoSocket /\ st[socketId] = "live"

\* C1: in every room of the registry the host is one of the members and no
\* member id is listed twice, whatever create-room, join-room, leave-room,
\* disconnects and grace-timer expiries have happened.
C1_HostIsMemberNoDuplicates ==
    \A r \in DOMAIN rooms :
        /\ Includes(rooms[r].members, rooms[r].hostId)
        /\ NoDuplicates(rooms[r].members)

\* a host has sent create-room again for its room that holds a viewer
C1_Witness ==
    /\ last.op = "create-room"
    /\ last.room \in DOMAIN rooms
    /\ Len(rooms[last.room].members) = 2

\* C2: two different members of a room never carry the same name in their
\* presence records, also after a member re-joins under another name.
C2_DistinctNamesInRoom ==
    \A r \in DOMAIN rooms :
        \A i, j \in 1..Len(rooms[r].members) :
            LET m == rooms[r].members[i]
                n == rooms[r].members[j]
            IN (m # n /\ m \in DOMAIN loggedInUsers /\ n \in DOMAIN loggedInUsers)
               => loggedInUsers[m].name # loggedInUsers[n].name

\* C3: when create-room or join-room binds a user to a new connection while
\* the connection bound before is another, live one, that old connection is
\* force-closed: it is no longer live after the handler.
C3_OldConnectionForceClosed ==
    [][\A u \in Users :
          LET old == GetUserSocket(userSocketMap, u)
              new == GetUserSocket(userSocketMap', u)
          IN (Live(status, old) /\ new # NoSocket /\ new # old)
             => ~Live(status', old)]_vars

C5_TimerCommitsUnlessLive ==
    [][(last'.op = "timer" /\ last'.user \in DOMAIN pendingDisconnects)
       => LET u == last'.user
              bound == GetUserSocket(userSocketMap, u)
              r == GetUserRoom(userRoomMap, u)
          IN IF Live(status, bound)
             THEN /\ UNCHANGED <<rooms, userSocketMap, userRoomMap, loggedInUsers,
                                 routers>>
                  /\ emitted' = <<>>
             ELSE /\ ~Includes(MembersOf(rooms', r), u)
                  /\ u \notin DOMAIN userSocketMap'
                  /\ u \notin DOMAIN userRoomMap'
                  /\ u \notin DOMAIN loggedInUsers'
                  /\ ~Live(status', GetUserSocket(userSocketMap', u))]_vars

\* a grace timer has fired and committed the departure of its user
C5_Witness ==
    /\ last.op = "timer"
    /\ last.flag
    /\ last.room # NoRoom
    /\ last.user \notin DOMAIN userSocketMap
    /\ \E c \in Sockets : Owner(c) = last.user /\ status[c] = "closed"

\* C6: when a handler force-closes the old connection of a user, the user is
\* already bound to the new connection: the old connection resolves to no
\* user, its disconnect arms no grace timer, and after the handler and after
\* the old connection's disconnect no timer is pending for the user and the
\* user is still a member of its room.
C6_ForcedDisconnectArmsNoTimer ==
    [][/\ \A c \in Sockets :
              (/\ last'.op \in {"create-room", "join-room"}
               /\ requests' = requests + 1
               /\ status[c] = "live"
               /\ status'[c] # "live")
              => LET u == last'.user
                 IN /\ FindUserIdBySocketId(userSocketMap', c) = NoUser
                    /\ GetUserSocket(userSocketMap', u) = last'.conn
                    /\ u \notin DOMAIN pendingDisconnects'
                    /\ DOMAIN pendingDisconnects' \subseteq DOMAIN pendingDisconnects
                    /\ Includes(MembersOf(rooms', GetUserRoom(userRoomMap', u)), u)
       /\ (last'.op = "disconnect" /\ status[last'.conn] = "closing")
              => /\ last'.user = NoUser
                 /\ UNCHANGED <<pendingDisconnects, rooms, userSocketMap, userRoomMap>>]_vars

\* the disconnect of a force-closed connection has been handled and the user
\* it belonged to is a member of its room, with no timer pending
C6_Witness ==
    /\ last.op = "disconnect"
    /\ last.flag
    /\ LET u == Owner(last.conn)
       IN /\ u \notin DOMAIN pendingDisconnects
          /\ GetUserSocket(userSocketMap, u) \notin {NoSocket, last.conn}
          /\ Includes(MembersOf(rooms, GetUserRoom(userRoomMap, u)), u)

\* C7: when the grace timer of a room's host fires with no reconnect, the
\* server emits to the room, in this order, member-left with the host as
\* memberId and the members without the host, then room-deleted with the
\* message 'Host has left the room', then calls closeRoom(roomId); afterwards
\* the registry has no such room.
C7_HostDefinitiveLeave ==
    [][(last'.op = "timer" /\ last'.user \in DOMAIN pendingDisconnects)
       => LET u == last'.user
              r == pendingDisconnects[u]
          IN (/\ r \in DOMAIN rooms
              /\ rooms[r].hostId = u
              /\ GetUserRoom(userRoomMap, u) = r
              /\ ~Live(status, GetUserSocket(userSocketMap, u)))
             => /\ Len(emitted') = 3
                /\ emitted'[1].type = "member-left"
                /\ emitted'[1].to = r
                /\ emitted'[1].data.memberId = u
                /\ emitted'[1].data.members = Without(rooms[r].members, u)
                /\ emitted'[2].type = "room-deleted"
                /\ emitted'[2].to = r
                /\ emitted'[2].data.message = "Host has left the room"
                /\ emitted'[3].type = "closeRoom"
                /\ emitted'[3].to = r
                /\ r \notin DOMAIN rooms'
                /\ r \notin DOMAIN routers']_vars

\* the grace timer of a host has fired over a room that also held a viewer
C7_Witness ==
    /\ last.op = "timer"
    /\ last.flag
    /\ last.room = GenerateRoomId(last.user)
    /\ Len(emitted) = 3
    /\ Len(emitted[1].data.members) = 1
    /\ last.room \notin DOMAIN rooms

\* C8: a leave-room of the host destroys the room: the members are notified
\* with room-deleted, the room's media router is closed and the room is
\* removed from the registry.
C8_HostLeaveRoomDestroysRoom ==
    [][(last'.op = "leave-room" /\ requests' = requests + 1)
       => LET u == last'.user
              r == last'.room
          IN (r \in DOMAIN rooms /\ rooms[r].hostId = u)
             => /\ HasEvent(emitted', "room-deleted", r)
                /\ HasEvent(emitted', "closeRoom", r)
                /\ r \notin DOMAIN routers'
                /\ r \notin DOMAIN rooms']_vars

\* C9: once a grace-timer expiry has destroyed room r and closed its router,
\* the registry has no room r, no presence record and no room mapping of any
\* user points to r, and there is no router for r.
C9_DestroyedRoomLeavesNoTrace ==
    (last.op = "timer" /\ HasEvent(emitted, "closeRoom", last.room))
    => LET r == last.room
       IN /\ r \notin DOMAIN rooms
          /\ \A u \in DOMAIN loggedInUsers : loggedInUsers[u].roomId # r
          /\ \A u \in DOMAIN userRoomMap : userRoomMap[u] # r
          /\ r \notin DOMAIN routers

\* C10: whenever a grace timer is about to commit a departure, what it does
\* is what a leave-room of that user for that room would do in the same
\* state: the same registry, mappings, presence and router map, and the same
\* events to the room.
C10_GraceExpiryEqualsLeaveRoom ==
    \A u \in DOMAIN pendingDisconnects :
        LET r == pendingDisconnects[u]
            p == ProcessUserDisconnect(u, r)
            o == LeaveRoomOutcome(r, u)
        IN (r # NoRoom /\ p.committed)
           => /\ p.rooms = o.rooms
              /\ p.usm = o.usm
              /\ p.urm = o.urm
              /\ p.logged = o.logged
              /\ p.routers = o.routers
              /\ EventsToRoom(p.emitted) = EventsToRoom(o.emitted)

\* C11: a re-join of a user in its grace window (its join-room for the room
\* the timer remembers, or a host's create-room for its room) leaves the room
\* as it was: it is still there with the same hostId, members and theme.
C11_RejoinLeavesRoomUnchanged ==
    [][(/\ last'.op \in {"create-room", "join-room"}
        /\ requests' = requests + 1
        /\ last'.user \in DOMAIN pendingDisconnects
        /\ last'.room = pendingDisconnects[last'.user]
        /\ last'.room \in DOMAIN rooms
        /\ Includes(rooms[last'.room].members, last'.user))
       => /\ last'.room \in DOMAIN rooms'
          /\ rooms'[last'.room] = rooms[last'.room]]_vars


\* C12: a create-room from a host whose room has more than one member keeps
\* the room: the room record, members included, is unchanged; room-created
\* goes to the host with all the members; host-reconnected {hostId,
\* hostSocketId: the new connection} is broadcast to the room with the host's
\* connection left out.
C12_HostReconnectKeepsRoom ==
    [][(last'.op = "create-room" /\ requests' = requests + 1)
       => LET u == last'.user
              c == last'.conn
              r == GenerateRoomId(u)
          IN (r \in DOMAIN rooms /\ rooms[r].hostId = u /\ Len(rooms[r].members) > 1)
             => /\ r \in DOMAIN rooms'
                /\ rooms'[r] = rooms[r]
                /\ \E i \in 1..Len(emitted') :
                       /\ emitted'[i].type = "room-created"
                       /\ emitted'[i].to = c
                       /\ emitted'[i].data.members = rooms[r].members
                /\ \E i \in 1..Len(emitted') :
                       /\ emitted'[i].type = "host-reconnected"
                       /\ emitted'[i].to = r
                       /\ emitted'[i].except = c
                       /\ emitted'[i].data = [hostId |-> u, hostSocketId |-> c]
                /\ \A i \in 1..Len(emitted') :
                       emitted'[i].type = "host-reconnected" => emitted'[i].except = c]_vars

\* a host has come back on a new connection to its room with a viewer in it
C12_Witness ==
    /\ last.op = "create-room"
    /\ last.flag
    /\ last.room \in DOMAIN rooms
    /\ Len(rooms[last.room].members) > 1
    /\ GetUserSocket(userSocketMap, last.user) = last.conn
    /\ HasEvent(emitted, "host-reconnected", last.room)


\* the ids of the producers of a room's router bundle
ProducerIds(rt, roomId) ==
    IF roomId \in DOMAIN rt
    THEN {rt[roomId].producers[i].id : i \in 1..Len(rt[roomId].producers)}
    ELSE {}

\* C13: on a create-room from a host whose bound connection is not the new
\* connection, the media of the old connection is cleaned up (no transport of
\* the old connection is left in the room's router), exactly one
\* producerClosed goes to the room for each producer that was closed, the
\* host is bound to the new connection, the old connection is force-closed
\* only after the rebind (its disconnect arms no grace timer), and every
\* producerClosed comes before room-created and host-reconnected.
C13_CleanupRebindCloseBeforeRoomCreated ==
    [][(last'.op = "create-room" /\ requests' = requests + 1)
       => LET u == last'.user
              c == last'.conn
              r == GetUserRoom(userRoomMap, u)
              old == GetUserSocket(userSocketMap, u)
              closed == ProducerIds(routers, r) \ ProducerIds(routers', r)
              n == Len(emitted')
          IN (r # NoRoom /\ old # NoSocket /\ old # c)
             => /\ routers' = CleanupUserMedia(routers, r, old).routers
                /\ r \in DOMAIN routers'
                       => \A t \in routers'[r].transports : ~StartsWith(t, old)
                /\ \A p \in closed :
                       Cardinality({i \in 1..n :
                                       /\ emitted'[i].type = "producerClosed"
                                       /\ emitted'[i].to = r
                                       /\ emitted'[i].data.producerId = p}) = 1
                /\ \A i \in 1..n :
                       emitted'[i].type = "producerClosed"
                           => emitted'[i].data.producerId \in closed
                /\ GetUserSocket(userSocketMap', u) = c
                /\ IsConnected(old) => status'[old] \in {"closing", "closed"}
                /\ u \notin DOMAIN pendingDisconnects'
                /\ \E j \in 1..n : emitted'[j].type = "room-created"
                /\ \A i, j \in 1..n :
                       (/\ emitted'[i].type = "producerClosed"
                        /\ emitted'[j].type \in {"room-created", "host-reconnected"})
                           => i < j]_vars

\* a host with a producer has come back on a new connection: its producer was
\* closed and announced, and its old connection is closed
C13_Witness ==
    /\ last.op = "create-room"
    /\ last.room \in DOMAIN rooms
    /\ GetUserSocket(userSocketMap, last.user) = last.conn
    /\ \E old \in Sockets :
           /\ Owner(old) = last.user
           /\ old # last.conn
           /\ status[old] = "closed"
    /\ \E i \in 1..Len(emitted) : emitted[i].type = "producerClosed"
    /\ \E i \in 1..Len(emitted) : emitted[i].type = "host-reconnected"


\* C14: a join-room by a user who is already one of the room's members leaves
\* the room's members as they were, the user listed once, and broadcasts no
\* member-joined.
C14_RejoinNoSecondMemberJoined ==
    [][(/\ last'.op = "join-room"
        /\ requests' = requests + 1
        /\ last'.room \in DOMAIN rooms
        /\ Includes(rooms[last'.room].members, last'.user))
       => /\ last'.room \in DOMAIN rooms'
          /\ rooms'[last'.room].members = rooms[last'.room].members
          /\ NoDuplicates(rooms'[last'.room].members)
          /\ \A i \in 1..Len(emitted') : emitted'[i].type # "member-joined"]_vars


\* C15: create-room is idempotent per host: every create-room of a host
\* answers with the room id computed from the hostId alone, the same id as
\* the create-room before it, and leaves a room under that id with the host
\* as hostId and listed exactly once in members, and one presence record for
\* the host, of that room and the sending connection.
C15_CreateRoomIdempotent ==
    [][(last'.op = "create-room" /\ requests' = requests + 1)
       => LET u == last'.user
              c == last'.conn
              r == GenerateRoomId(u)
          IN /\ \A i \in 1..Len(emitted') :
                    emitted'[i].type = "room-created"
                        => (emitted'[i].to = c /\ emitted'[i].data.roomId = r)
             /\ \E i \in 1..Len(emitted') : emitted'[i].type = "room-created"
             /\ (last.op = "create-room" /\ last.user = u)
                    => \A i \in 1..Len(emitted) :
                           emitted[i].type = "room-created"
                               => emitted[i].data.roomId = r
             /\ r \in DOMAIN rooms'
             /\ rooms'[r].hostId = u
             /\ Cardinality({i \in 1..Len(rooms'[r].members) :
                                rooms'[r].members[i] = u}) = 1
             /\ GetUserRoom(userRoomMap', u) = r
             /\ u \in DOMAIN loggedInUsers'
             /\ loggedInUsers'[u].roomId = r
             /\ loggedInUsers'[u].socketId = c]_vars

\* a host that has only ever used one connection has sent create-room again
\* to a room that already had a viewer
C15_Witness ==
    /\ last.op = "create-room"
    /\ status[last.conn] = "live"
    /\ \A s \in Sockets : (Owner(s) = last.user /\ s # last.conn) => status[s] = "new"
    /\ \E i \in 1..Len(emitted) : emitted[i].type = "host-reconnected"
    /\ last.user \in DOMAIN loggedInUsers
    /\ loggedInUsers[last.user].socketId = last.conn


\* C16: a join-room by a user who is not one of the room's members, under a
\* name that another member of the room has, is answered with the error
\* 'The name "<name>" is already taken in this room. Please choose another
\* name.' and nothing else: no room-joined and no member-joined is emitted,
\* and the rooms, the user-connection and user-room mappings and the presence
\* records are unchanged.
C16_DuplicateNameRejected ==
    [][(/\ last'.op = "join-room"
        /\ requests' = requests + 1
        /\ last'.room \in DOMAIN rooms
        /\ ~Includes(rooms[last'.room].members, last'.user)
        /\ \E i \in 1..Len(rooms[last'.room].members) :
               LET m == rooms[last'.room].members[i]
               IN /\ m # last'.user
                  /\ last'.name = (IF m \in DOMAIN loggedInUsers
                                   THEN loggedInUsers[m].name ELSE DefaultName(m)))
       => /\ emitted' = <<Ev("error", last'.conn, NoSocket,
                             [message |-> NameTakenMessage(last'.name)])>>
          /\ rooms' = rooms
          /\ userSocketMap' = userSocketMap
          /\ userRoomMap' = userRoomMap
          /\ loggedInUsers' = loggedInUsers
          /\ status' = status]_vars

\* a user outside the room has asked to join under the host's name and got
\* the name-taken error
C16_Witness ==
    /\ last.op = "join-room"
    /\ last.room \in DOMAIN rooms
    /\ ~Includes(rooms[last.room].members, last.user)
    /\ rooms[last.room].hostId \in DOMAIN loggedInUsers
    /\ loggedInUsers[rooms[last.room].hostId].name = last.name
    /\ Len(emitted) = 1
    /\ emitted[1].type = "error"
    /\ emitted[1].data.message = NameTakenMessage(last.name)


\* the events of a type in a trace
EventsOfType(ev, type) == SelectSeq(ev, LAMBDA e : e.type = type)

\* C17: a join-room that adds a user who was not one of the room's members
\* sends one room-joined to the joiner and one member-joined to the rest of
\* the room, both with the member list of the room after the join, the joiner
\* in it; when the joiner is not the host and the host is bound to a
\* connection, that connection is sent viewer-joined with the joiner's
\* connection id.
C17_FreshJoinEvents ==
    [][(/\ last'.op = "join-room"
        /\ requests' = requests + 1
        /\ last'.room \in DOMAIN rooms
        /\ ~Includes(rooms[last'.room].members, last'.user)
        /\ last'.room \in DOMAIN rooms'
        /\ Includes(rooms'[last'.room].members, last'.user))
       => LET u == last'.user
              c == last'.conn
              r == last'.room
              members == rooms'[r].members
              hostId == rooms'[r].hostId
              hostSocketId == GetUserSocket(userSocketMap', hostId)
              roomJoined == EventsOfType(emitted', "room-joined")
              memberJoined == EventsOfType(emitted', "member-joined")
              viewerJoined == EventsOfType(emitted', "viewer-joined")
          IN /\ Len(roomJoined) = 1
             /\ roomJoined[1].to = c
             /\ roomJoined[1].data.members = members
             /\ Len(memberJoined) = 1
             /\ memberJoined[1].to = r
             /\ memberJoined[1].except = c
             /\ memberJoined[1].data.memberId = u
             /\ memberJoined[1].data.memberName = last'.name
             /\ memberJoined[1].data.members = members
             /\ memberJoined[1].data.membersWithDetails
                    = roomJoined[1].data.membersWithDetails
             /\ (u # hostId /\ hostSocketId # NoSocket)
                    => viewerJoined = <<Ev("viewer-joined", hostSocketId, NoSocket,
                                           [viewerId |-> c])>>]_vars

\* a user has left its own room to join another user's room: the joiner is a
\* member, and the host's connection was told of the viewer
C17_Witness ==
    /\ last.op = "join-room"
    /\ last.room \in DOMAIN rooms
    /\ Includes(rooms[last.room].members, last.user)
    /\ rooms[last.room].hostId # last.user
    /\ \E i \in 1..Len(emitted) : emitted[i].type = "member-left"
    /\ \E i \in 1..Len(emitted) : emitted[i].type = "member-joined"
    /\ \E i \in 1..Len(emitted) :
           /\ emitted[i].type = "viewer-joined"
           /\ emitted[i].to = GetUserSocket(userSocketMap, rooms[last.room].hostId)
           /\ emitted[i].data.viewerId = last.conn


\* C18: after a create-room or join-room that moves a user from its old
\* connection to a new one, the router of the room holds no transport whose
\* id starts with the old connection's id, and no producer or consumer that
\* was created on such a transport.
C18_NoMediaOfOldConnection ==
    [][(/\ last'.op \in {"create-room", "join-room"}
        /\ requests' = requests + 1
        /\ GetUserSocket(userSocketMap, last'.user) # NoSocket
        /\ GetUserSocket(userSocketMap, last'.user) # last'.conn
        /\ GetUserSocket(userSocketMap', last'.user) = last'.conn
        /\ last'.room \in DOMAIN routers')
       => LET old == GetUserSocket(userSocketMap, last'.user)
              bundle == routers'[last'.room]
          IN /\ \A t \in bundle.transports : ~StartsWith(t, old)
             /\ \A i \in 1..Len(bundle.producers) :
                    ~StartsWith(bundle.producers[i].transport, old)
             /\ \A k \in bundle.consumers : ~StartsWith(k.transport, old)]_vars


\* C19: in every reachable state a media router bundle is recorded for a room
\* id only if the registry has a room of that id: routers are created for
\* rooms that exist and are gone once the room is destroyed, whichever way it
\* was destroyed.
C19_RouterOnlyIfRoomExists == DOMAIN routers \subseteq DOMAIN rooms


\* C20: a router bundle recorded for a room is never replaced while the room
\* is open: whatever concurrent createRouter calls for the room are under
\* way, the room keeps the one router that was created first, and every
\* caller is answered with that router.
C20_RouterNeverReplaced ==
    [][\A r \in DOMAIN routers :
           (r \in DOMAIN routers' /\ r \in DOMAIN rooms /\ r \in DOMAIN rooms')
               => /\ routers'[r].router = routers[r].router
                  /\ \A i \in 1..Len(emitted') :
                         emitted'[i].type = "routerRtpCapabilities"
                             => (emitted'[i].data.router = routers[r].router
                                 \/ last'.room # r)]_vars


\* the ids a client may name in a request
TransportIds == Sockets \X Directions

EngineProducerIds == {<<"producer", k>> : k \in 1..MaxEngineIds}

EngineConsumerIds == {<<"consumer", k>> : k \in 1..MaxEngineIds}

\* C21: every facade operation is total on a missing resource. With no router
\* for the room getRouterRtpCapabilities, createWebRtcTransport, produce and
\* consume return null, connectTransport and resumeConsumer return false,
\* getProducers and cleanupUserMedia return an empty list, closeProducer,
\* closeTransport and closeRoom do nothing; with a router and a missing
\* transport, producer or consumer the operation that needs it returns
\* null/false or does nothing. None of these raises, and none changes the
\* router map.
C21_FacadeTotalOnMissing ==
    LET newProducer == <<"producer", engineIds + 1>>
        newConsumer == <<"consumer", engineIds + 1>>
        unchangedNull == Out(routers, Null, FALSE)
        unchangedFalse == Out(routers, FALSE, FALSE)
    IN /\ \A roomId \in RoomIds \ DOMAIN routers :
              /\ GetRouterRtpCapabilities(routers, roomId) = Null
              /\ GetProducers(routers, roomId) = <<>>
              /\ CloseRoom(routers, roomId) = routers
              /\ \A old \in Sockets :
                     CleanupUserMedia(routers, roomId, old)
                         = [routers |-> routers, closed |-> <<>>]
              /\ \A t \in TransportIds, rejects \in BOOLEAN :
                     CreateWebRtcTransport(routers, roomId, t, rejects) = unchangedNull
       /\ \A roomId \in RoomIds, t \in TransportIds :
              (roomId \notin DOMAIN routers \/ t \notin routers[roomId].transports)
                  => /\ CloseTransport(routers, roomId, t) = routers
                     /\ \A rejects \in BOOLEAN :
                            /\ ConnectTransport(routers, roomId, t, rejects) = unchangedFalse
                            /\ Produce(routers, roomId, t, newProducer, rejects)
                                   = unchangedNull
                            /\ \A p \in EngineProducerIds, canConsume \in BOOLEAN :
                                   Consume(routers, roomId, t, p, canConsume, newConsumer,
                                           rejects) = unchangedNull
       /\ \A roomId \in RoomIds, p \in EngineProducerIds :
              (roomId \notin DOMAIN routers \/ ~HasProducer(routers, roomId, p))
                  => /\ CloseProducer(routers, roomId, p) = routers
                     /\ \A t \in TransportIds, canConsume \in BOOLEAN,
                           rejects \in BOOLEAN :
                            Consume(routers, roomId, t, p, canConsume, newConsumer, rejects)
                                = unchangedNull
       /\ \A roomId \in RoomIds, k \in EngineConsumerIds, rejects \in BOOLEAN :
              (roomId \notin DOMAIN routers \/ ~HasConsumer(routers, roomId, k))
                  => ResumeConsumer(routers, roomId, k, rejects) = unchangedFalse

\* a consume that named a producer the room's router does not have was
\* answered with the error, while another room id has no router at all
C21_Witness ==
    /\ last.op = "consume"
    /\ ~last.flag
    /\ ~last.raised
    /\ last.room \in DOMAIN routers
    /\ routers[last.room].transports # {}
    /\ routers[last.room].producers = <<>>
    /\ \E r \in RoomIds : r \notin DOMAIN routers
    /\ Len(emitted) = 1
    /\ emitted[1].type = "error"


\* C23: the handlers of one connection run one after the other: while a
\* getRouterRtpCapabilities of a connection is still waiting for its router,
\* no other request of that connection is handled, so that a createTransport
\* sent after it finds the router it created.
C23_HandlersOfAConnectionInOrder ==
    [][\A call \in routerCalls :
           ~(requests' = requests + 1 /\ last'.conn = call[1])]_vars


\* C24: when the media engine rejects an operation during
\* getRouterRtpCapabilities, createTransport, connectTransport, produce,
\* consume or resumeConsumer, the client that sent the request gets an error
\* event and nothing else is emitted (no transportCreated, produced,
\* newProducer, consumed, ...), its connection stays as it was, and the room
\* registry is unchanged.
C24_EngineFailureSurfacesError ==
    [][(/\ last'.op \in {"routerCreated", "createTransport", "connectTransport",
                         "produce", "consume", "resumeConsumer"}
        /\ last' # last
        /\ last'.raised)
       => /\ Len(emitted') = 1
          /\ emitted'[1].type = "error"
          /\ emitted'[1].to = last'.conn
          /\ status' = status
          /\ rooms' = rooms
          /\ userSocketMap' = userSocketMap
          /\ userRoomMap' = userRoomMap
          /\ loggedInUsers' = loggedInUsers]_vars


\* C27: a fresh join-room into room R (the user is not a member of R, has no
\* grace timer pending and no presence record of R) by a user bound to
\* another room R' of which it is a member first removes the user from R',
\* tells R' with member-left and the members R' is left with, and leaves the
\* user a member of R and of no other room.
C27_FreshJoinLeavesOldRoom ==
    [][(/\ last'.op = "join-room"
        /\ requests' = requests + 1
        /\ last'.room \in DOMAIN rooms
        /\ ~Includes(rooms[last'.room].members, last'.user)
        /\ last'.user \notin DOMAIN pendingDisconnects
        /\ ~IsUserLoggedInToRoom(loggedInUsers, last'.user, last'.room)
        /\ GetUserRoom(userRoomMap, last'.user) # NoRoom
        /\ GetUserRoom(userRoomMap, last'.user) # last'.room
        /\ GetUserRoom(userRoomMap, last'.user) \in DOMAIN rooms
        /\ Includes(rooms[GetUserRoom(userRoomMap, last'.user)].members, last'.user)
        /\ last'.room \in DOMAIN rooms'
        /\ Includes(rooms'[last'.room].members, last'.user))
       => LET u == last'.user
              old == GetUserRoom(userRoomMap, u)
          IN /\ Len(emitted') >= 2
             /\ emitted'[1] = Ev("member-left", old, NoSocket,
                                 [memberId |-> u,
                                  members |-> Without(rooms[old].members, u)])
             /\ emitted'[2].type = "room-joined"
             /\ \A x \in DOMAIN rooms' :
                    Includes(rooms'[x].members, u) => x = last'.room]_vars


\* C22: without worker deaths, whatever createRouter and closeRoom calls are
\* made and however the scaling passes they trigger interleave with them, the
\* running service never holds more than maxWorkers workers, and every change
\* a scaling pass makes to the pool leaves at least minWorkers workers.
C22_ScalingKeepsPoolWithinLimits ==
    [][started' = "running" =>
           /\ Len(workers') <= maxWorkers'
           /\ (started = "running" /\ workers' # workers)
                  => Len(workers') >= minWorkers']_vars

\* a pass has scaled the pool up to maxWorkers and a later pass has scaled it
\* down again
C22_Witness ==
    /\ started = "running"
    /\ last.op = "scaleDown"
    /\ pidCount = maxWorkers
    /\ Len(workers) = maxWorkers - 1
    /\ Len(workers) >= minWorkers


\* C28: with worker deaths and their recoveries interleaved with the scaling
\* passes, the running service never holds more than maxWorkers workers, and
\* whenever a scaling pass changes the pool, the pool still has the size the
\* pass read when it started.
C28_PoolMutationSerialized ==
    /\ [](started = "running" => Len(workers) <= maxWorkers)
    /\ [][(Len(passes) > 0 /\ Len(passes') < Len(passes) /\ workers' # workers)
             => passes[1].currentWorkerCount = Len(workers)]_vars


\* the engine answers every request of a scaling pass, with a result or a
\* rejection
SpecScaleFair ==
    /\ SpecScale
    /\ WF_vars(\E i \in 1..MaxPasses, samples \in Samples :
                   UpdateWorkerResourceMetricsReturn(i, samples))
    /\ WF_vars(\E i \in 1..MaxPasses, rejects \in BOOLEAN : ScaleUpReturn(i, rejects))

\* a step in which createRouter or closeRoom calls checkAndScale
ScalingTriggered ==
    /\ last'.op \in {"createRouterReturn", "closeRoom"}
    /\ last'.flag
    /\ (requests' # requests \/ creating' # creating)

\* C29: at most one scaling pass is past the isScaling gate, and the flag is
\* set exactly while that pass is in flight; a trigger that arrives meanwhile
\* leaves the pool, the usage map and the pass alone; and every pass ends
\* (without routers at once, after the sampling, or after the creation of a
\* worker succeeded or failed) with the flag released.
C29_IsScalingGate ==
    /\ [](Len(passes) <= 1 /\ (isScaling <=> Len(passes) = 1))
    /\ [][(ScalingTriggered /\ isScaling)
              => UNCHANGED <<workers, workerResourceUsage, passes, isScaling>>]_vars
    /\ (isScaling ~> ~isScaling)

\* a trigger has arrived while a pass was awaiting the worker it creates
C29_Witness ==
    /\ isScaling
    /\ Len(passes) = 1
    /\ passes[1].pc = "creating"
    /\ last.op = "closeRoom"
    /\ last.flag
    /\ Cardinality(DOMAIN routers) > 0


\* C30: the 'died' handler removes the dead worker from the pool and makes
\* one recovery attempt, so that attempts and deaths always agree; when the
\* attempt succeeds a new worker is appended to the pool and no termination
\* is scheduled; when it fails the pool is left as it is and process
\* termination is scheduled exactly if the pool is empty at that moment.
C30_WorkerDeathHandling ==
    /\ [](attempts = deaths /\ recoveries <= deaths)
    /\ [][deaths' # deaths =>
              /\ deaths' = deaths + 1
              /\ recoveries' = recoveries + 1
              /\ Len(workers') = Len(workers) - 1
              /\ \E pid \in Elements(workers) :
                     /\ ~Includes(workers', pid)
                     /\ workers' = Splice(workers, IndexOf(workers, pid))
              /\ exitTimers' = exitTimers]_vars
    /\ [][recoveries' < recoveries =>
              /\ recoveries' = recoveries - 1
              /\ attempts' = attempts
              /\ IF last'.flag
                 THEN /\ Len(workers') = Len(workers) + 1
                      /\ SubSeq(workers', 1, Len(workers)) = workers
                      /\ ~Includes(workers, workers'[Len(workers')])
                      /\ exitTimers' = exitTimers
                 ELSE /\ workers' = workers
                      /\ exitTimers' = IF Len(workers) = 0 THEN exitTimers + 1
                                       ELSE exitTimers]_vars

\* the only worker has died and its recovery has failed: termination is scheduled
C30_Witness ==
    /\ last.op = "recoverWorkerReturn"
    /\ ~last.flag
    /\ deaths = 1
    /\ Len(workers) = 0
    /\ exitTimers = 1


\* C25: send-message appends to the store a message with an id no stored
\* message has and the server's time, and broadcasts it to the room as
\* chat-message; and the chat-history that a successful create-room or
\* join-room for a room delivers contains every message sent to that room
\* before, however many messages the room has, in ascending order of timestamp.
C25_ChatRoundTrip ==
    /\ [][(last'.op = "send-message" /\ requests' = requests + 1)
              => /\ Len(messages') = Len(messages) + 1
                 /\ SubSeq(messages', 1, Len(messages)) = messages
                 /\ \A k \in 1..Len(messages) :
                        messages[k].id # messages'[Len(messages')].id
                 /\ messages'[Len(messages')].timestamp = now'
                 /\ now' >= now
                 /\ emitted' = <<Ev("chat-message", last'.room, NoSocket,
                                    messages'[Len(messages')])>>]_vars
    /\ [][\A i \in 1..Len(delivered') :
              delivered'[i].type = "chat-history"
                  => LET history == delivered'[i].data.messages
                     IN /\ \A k \in 1..Len(messages) :
                               (messages[k].id[1] = "msg" /\ messages[k].roomId = last'.room)
                                   => \E j \in 1..Len(history) :
                                          history[j].id = messages[k].id
                        /\ \A j \in 1..(Len(history) - 1) :
                               history[j].timestamp <= history[j + 1].timestamp]_vars


\* the users that have reacted with the emoji, in a reactions list
ReactedWith(reactions, emoji) ==
    UNION {Elements(reactions[i].userIds) :
               i \in {j \in 1..Len(reactions) : reactions[j].emoji = emoji}}

\* no reaction entry without users or with a user twice, one entry per emoji
WellFormedReactions(reactions) ==
    /\ \A i \in 1..Len(reactions) :
           /\ Len(reactions[i].userIds) > 0
           /\ NoDuplicates(reactions[i].userIds)
    /\ \A i, j \in 1..Len(reactions) : reactions[i].emoji = reactions[j].emoji => i = j

\* C26: for every stored message, user and emoji, react-to-message puts the
\* user among the emoji's users if absent and takes the user out if present,
\* leaving the other emojis alone; no reaction entry is ever without users or
\* holds a user twice; the same request twice gives back the reactions the
\* message had; and every react-to-message for a stored message broadcasts
\* message-reaction-updated with the message's reactions as they then are.
C26_ReactionToggle ==
    /\ [](\A k \in 1..Len(messages), u \in Users, e \in Emojis :
              messages[k].id \in MessageIds \cup {<<"old", 1>>}
                  => LET m == messages[k]
                         once == AddReaction(messages, m.roomId, m.id, u, e)
                         twice == AddReaction(once.messages, m.roomId, m.id, u, e)
                     IN /\ WellFormedReactions(m.reactions)
                        /\ once.found
                        /\ once.messages[k].reactions = once.reactions
                        /\ WellFormedReactions(once.reactions)
                        /\ ReactedWith(once.reactions, e) =
                               IF u \in ReactedWith(m.reactions, e)
                               THEN ReactedWith(m.reactions, e) \ {u}
                               ELSE ReactedWith(m.reactions, e) \cup {u}
                        /\ \A f \in Emojis \ {e} :
                               ReactedWith(once.reactions, f) = ReactedWith(m.reactions, f)
                        /\ \A f \in Emojis :
                               ReactedWith(twice.reactions, f) = ReactedWith(m.reactions, f))
    /\ [][(/\ last'.op = "react-to-message"
           /\ requests' = requests + 1
           /\ \E k \in 1..Len(messages) :
                  messages[k].id = last'.messageId /\ messages[k].roomId = last'.room)
              => LET r == AddReaction(messages, last'.room, last'.messageId,
                                      last'.user, last'.emoji)
                 IN /\ messages' = r.messages
                    /\ emitted' = <<Ev("message-reaction-updated", last'.room, NoSocket,
                                       [messageId |-> last'.messageId,
                                        reactions |-> r.reactions])>>]_vars


\* C31: every createRouter that has no router for its room takes the worker
\* at nextWorkerIndex, which is a position of the pool (0 <= nextWorkerIndex
\* < pool size), asks that worker for the router and advances the index
\* round-robin; and the worker a new router is recorded with is in the pool,
\* whatever router creations, scale-ups, scale-downs and worker deaths came
\* before.
C31_RouterPlacement ==
    /\ [][(/\ last'.op = "createRouter"
           /\ requests' = requests + 1
           /\ last'.room \notin DOMAIN routers)
              => /\ 0 <= nextWorkerIndex
                 /\ nextWorkerIndex < Len(workers)
                 /\ Len(creating') = Len(creating) + 1
                 /\ creating'[Len(creating')] =
                        [room |-> last'.room, worker |-> workers[nextWorkerIndex + 1]]
                 /\ nextWorkerIndex' = (nextWorkerIndex + 1) % Len(workers)]_vars
    /\ [][\A r \in (DOMAIN routers') \ DOMAIN routers :
              Includes(workers, routers'[r].router.workerId)]_vars


\* C32: cleanupUserMedia(roomId, prefix) on a room with a router removes from
\* the room's transports exactly those whose id begins with prefix; if there
\* was one, it empties the room's producers and returns the id of every
\* producer the room had, each once; if there was none, the router map is as
\* it was and the result is empty.  The consumers, the router and the other
\* rooms are left alone.  A create-room of a host that comes back on a new
\* connection leaves the router map that this cleanup gives.
C32_CleanupUserMediaExact ==
    /\ [](\A roomId \in DOMAIN routers, prefix \in Sockets :
              LET bundle == routers[roomId]
                  matching == {t \in bundle.transports : StartsWith(t, prefix)}
                  o == CleanupUserMedia(routers, roomId, prefix)
              IN /\ DOMAIN o.routers = DOMAIN routers
                 /\ \A r \in DOMAIN routers : r # roomId => o.routers[r] = routers[r]
                 /\ o.routers[roomId].transports = bundle.transports \ matching
                 /\ o.routers[roomId].consumers = bundle.consumers
                 /\ o.routers[roomId].router = bundle.router
                 /\ IF matching # {}
                    THEN /\ o.routers[roomId].producers = <<>>
                         /\ Len(o.closed) = Len(bundle.producers)
                         /\ NoDuplicates(o.closed)
                         /\ Elements(o.closed) = ProducerIds(routers, roomId)
                    ELSE /\ o.routers = routers
                         /\ o.closed = <<>>)
    /\ [][(/\ last'.op = "create-room"
           /\ requests' = requests + 1
           /\ GetUserRoom(userRoomMap, last'.user) \in DOMAIN routers
           /\ GetUserSocket(userSocketMap, last'.user) \notin {NoSocket, last'.conn})
              => LET r == GetUserRoom(userRoomMap, last'.user)
                     old == GetUserSocket(userSocketMap, last'.user)
                     matching == {t \in routers[r].transports : StartsWith(t, old)}
                 IN /\ r \in DOMAIN routers'
                    /\ routers'[r].transports = routers[r].transports \ matching
                    /\ routers'[r].producers =
                           IF matching # {} THEN <<>> ELSE routers[r].producers]_vars

\* a host with a send transport and a producer has come back on a new
\* connection: its transport and the room's producer are gone, the viewer's
\* transport and consumer are still recorded
C32_Witness ==
    /\ last.op = "create-room"
    /\ last.room \in DOMAIN routers
    /\ HasEvent(emitted, "producerClosed", last.room)
    /\ routers[last.room].producers = <<>>
    /\ routers[last.room].transports = {<<<<MediaViewer, 1>>, "recv">>}
    /\ routers[last.room].consumers # {}


\* C33: when closeRoom(roomId) has run, no bundle is recorded for roomId
\* (getProducers is empty, getRouterRtpCapabilities is null); and when the
\* router of a createRouter that was in flight for the room while closeRoom
\* ran arrives next, the room still has no bundle and the caller is not
\* answered with a router's capabilities.
C33_CloseRoomFinal ==
    /\ [][(last'.op = "timer" /\ pendingDisconnects' # pendingDisconnects)
              => \A r \in RoomIds :
                     HasEvent(emitted', "closeRoom", r)
                         => /\ r \notin DOMAIN routers'
                            /\ GetProducers(routers', r) = <<>>
                            /\ GetRouterRtpCapabilities(routers', r) = Null]_vars
    /\ [][(/\ last.op = "timer"
           /\ HasEvent(emitted, "closeRoom", last.room)
           /\ last'.op = "routerCreated"
           /\ last'.room = last.room
           /\ <<last'.conn, last.room>> \in routerCalls
           /\ <<last'.conn, last.room>> \notin routerCalls')
              => /\ last.room \notin DOMAIN routers'
                 /\ ~HasEvent(emitted', "routerRtpCapabilities", last'.conn)]_vars


\* C34: in every reachable state a user is listed in the members of at most
\* one room, and the room a user is a member of is the room the user-room
\* mapping binds the user to.
C34_ExclusiveMembership ==
    \A r \in DOMAIN rooms :
        \A i \in 1..Len(rooms[r].members) :
            LET u == rooms[r].members[i]
            IN /\ GetUserRoom(userRoomMap, u) = r
               /\ \A x \in DOMAIN rooms : Includes(rooms[x].members, u) => x = r


\* C35: in every reachable state every member of every room is bound to a
\* live connection or has a grace timer pending, so that a member whose
\* connection has dropped is removed when its timer fires.
C35_NoGhostMembers ==
    \A r \in DOMAIN rooms :
        \A i \in 1..Len(rooms[r].members) :
            LET u == rooms[r].members[i]
            IN \/ Live(status, GetUserSocket(userSocketMap, u))
               \/ u \in DOMAIN pendingDisconnects


\* C38: between handlers, for every user the user-connection binding, the
\* user-room binding and the presence record are all there or all missing,
\* and the connection and room of the presence record are the two bindings.
C38_RegistryMapsAgree ==
    /\ DOMAIN userSocketMap = DOMAIN userRoomMap
    /\ DOMAIN userRoomMap = DOMAIN loggedInUsers
    /\ \A u \in DOMAIN loggedInUsers :
           /\ loggedInUsers[u].socketId = userSocketMap[u]
           /\ loggedInUsers[u].roomId = userRoomMap[u]


\* a user has left its room with leave-room and has no binding and no
\* presence record, while the host it visited was rebound to a new
\* connection and has all three
C38_Witness ==
    /\ last.op = "leave-room"
    /\ last.flag
    /\ last.user \notin DOMAIN userSocketMap
    /\ \E u \in DOMAIN loggedInUsers :
           /\ u # last.user
           /\ userRoomMap[u] = last.room
           /\ userSocketMap[u][2] > 1


\* C37: broadcast scope matches membership: every live connection that has
\* joined the socket.io room roomId is the bound connection of a current
\* member of an existing room roomId.
C37_BroadcastScope ==
    \A c \in DOMAIN socketRooms :
        \A roomId \in socketRooms[c] :
            status[c] = "live"
                => /\ roomId \in DOMAIN rooms
                   /\ \E u \in DOMAIN userSocketMap :
                          /\ userSocketMap[u] = c
                          /\ Includes(MembersOf(rooms, roomId), u)


\* C39: every router recorded in the roomId -> router map lives on a worker
\* that is currently in the pool, whatever scale-down or worker death removed.
C39_RoutersOnPoolWorkers ==
    \A roomId \in DOMAIN routers :
        Includes(workers, routers[roomId].router.workerId)

\* C40: the step that ends a scaling pass's sampling, and the step that ends
\* its worker creation, change the pool size by at most one worker, and no
\* worker is removed while the maximum sampled CPU exceeds the scale-up
\* threshold.
C40_ScalingPassStep ==
    /\ [][\A i \in 1..MaxPasses, samples \in Samples :
              UpdateWorkerResourceMetricsReturn(i, samples)
                  => /\ Len(workers') - Len(workers) \in {-1, 0, 1}
                     /\ Len(workers') < Len(workers)
                            => CalculateResourceUsage(
                                   Sampled(workerResourceUsage, passes[i].sampled, samples),
                                   workers).maxCpuUsage <= RESOURCE_USAGE_THRESHOLD]_vars
    /\ [][\A i \in 1..MaxPasses, rejects \in BOOLEAN :
              ScaleUpReturn(i, rejects)
                  => Len(workers') - Len(workers) \in {0, 1}]_vars


\* C36: a disconnect arms a grace timer for every userId bound to the
\* connection, and the disconnect of a connection bound to no userId leaves
\* rooms, bindings, presence and timers as they were.
C36_DisconnectArmsEveryTimer ==
    [][(last'.op = "disconnect" /\ status' # status)
           => /\ \A u \in DOMAIN userSocketMap :
                     userSocketMap[u] = last'.conn => u \in DOMAIN pendingDisconnects'
              /\ (\A u \in DOMAIN userSocketMap : userSocketMap[u] # last'.conn)
                     => UNCHANGED <<rooms, userSocketMap, userRoomMap, loggedInUsers,
                                    pendingDisconnects>>]_vars

====
